---- MODULE Spec2Model ----
(***************************************************************************)
(* State-machine model of the HoneyBadgerBFT engine runtime                *)
(* (ethcore/engines/hbbft/src/hbbft_engine.rs).                            *)
(*                                                                         *)
(* The engine's fields (client, signer, hbbft_state, sealing,              *)
(* random_numbers, message_counter) are the variables; every Engine        *)
(* callback is one action.  The host client and the peers are the          *)
(* environment: their answers and messages are drawn from small sets.      *)
(***************************************************************************)
EXTENDS Integers, FiniteSets, Sequences, TLC

\* ------------------------------------------------------------------ bounds
\* The host's latest block number ranges over 0..MaxBlock.
MaxBlock == 1
\* On-chain validator (POSDAO) epochs range over 0..MaxEpoch; each has its own key set.
MaxEpoch == 1
\* Wall-clock seconds, block timestamps and minimum_block_time range over 0..MaxTime.
MaxTime == 1
\* Transaction-queue lengths and the queue-size trigger range over 0..MaxQueue.
MaxQueue == 1
\* The message sequence counter is followed up to MaxCounter.
MaxCounter == 3

\* ------------------------------------------------------------- value sets
\* The committee (NodeIds); the engine under study is OurId.
Nodes == {"n1", "n2", "n3", "n4"}
OurId == "n1"
Peers == Nodes \ {OurId}
\* f = floor((n - 1) / 3)
NumFaulty == (Cardinality(Nodes) - 1) \div 3
\* Bare hashes of block headers.
Hashes == {"ha", "hb"}
\* Block numbers that appear as keys of the sealing map and the random-number table.
Blocks == 1..(MaxBlock + 1)
Epochs == 0..MaxEpoch

None == [some |-> FALSE]
Some(x) == [some |-> TRUE, v |-> x]

VARIABLES
    client,           \* HoneyBadgerBFT.client: "unbound" (None), "live", "dropped" (Weak no longer upgrades)
    signer,           \* HoneyBadgerBFT.signer is Some
    hbbft_state,      \* HoneyBadgerBFT.hbbft_state
    sealing,          \* HoneyBadgerBFT.sealing: block number -> Sealing (or Absent)
    random_numbers,   \* HoneyBadgerBFT.random_numbers: block number -> Some(U256) or None
    message_counter,  \* HoneyBadgerBFT.message_counter
    params,           \* HoneyBadgerBFT.params (minimum_block_time, transaction_queue_size_trigger,
                      \* block_reward_contract_address is Some)
    latest,           \* host: latest block number
    chainEpoch,       \* host: validator epoch recorded on chain at the latest block
    sealSteps,        \* process_seal_step calls that hold a combined signature and have not stored it yet
    sealed,           \* history: the block generate_seal sealed last (number, bare hash, seal), if any
    batches,          \* history: the epochs of the batches process_output has processed
    committee,        \* batch model: the validators (NetworkInfo::all_ids)
    honey_badgers,    \* batch model: the HoneyBadger instance of each observed validator
    pending_blocks,   \* batch model: what each observed validator made of its first batch
    key_pairs,        \* generate_keygens: the nodes taking part in key generation
    threshold,        \* generate_keygens: t
    sync_keygen,      \* generate_keygens: the SyncKeyGen session of each node
    acks,             \* generate_keygens: (node, PartOutcome) pairs collected so far
    ack_outcomes,     \* generate_keygens: the AckOutcomes collected so far
    keygen_pc,        \* generate_keygens: where the loops stand
    script,           \* lock model: what is left of the operation each thread runs
    held,             \* lock model: the locks each thread holds, in the order taken
    thread,           \* thread model: where each thread stands inside the operation it runs
    outbox,           \* thread model: the envelopes handed to send_consensus_message, in order
    proposed,         \* thread model: history of the contributions proposed (key set, HB epoch)
    targeted,         \* dispatch model: the TargetedMessage dispatch_messages is working on
    sends,            \* dispatch model: the node ids send_consensus_message was called with, in order
    timer             \* timer model: the TransitionHandler and its one-shot timer

\* The engine proper.
engine_vars == << client, signer, hbbft_state, sealing, random_numbers, message_counter, params,
                  latest, chainEpoch, sealSteps, sealed, batches >>
\* One batch at several validators (tests::test_single_contribution, process_output).
batch_vars == << committee, honey_badgers, pending_blocks >>
\* Key generation by the configuration generator (generate_keygens).
keygen_vars == << key_pairs, threshold, sync_keygen, acks, ack_outcomes, keygen_pc >>
\* The engine's operations as the lock and host-call steps of concurrent threads.
lock_vars == << script, held >>
\* Concurrent operations, statement by statement (process_step and what leads to it).
thread_vars == << thread, outbox, proposed >>
\* dispatch_messages on one message.
dispatch_vars == << targeted, sends >>
\* The variables of the thread, dispatch and timer models.
extra_vars == << thread_vars, dispatch_vars, timer >>
\* What the engine's own actions leave alone.
side_vars == << batch_vars, keygen_vars, lock_vars, extra_vars >>

vars == << engine_vars, side_vars >>

\* ---------------------------------------------------------- cryptography
\* A combined threshold signature: which key set produced it, over which hash.
Signature(key, hash) == [key |-> key, hash |-> hash]
\* PublicKey::verify(sig, hash) under the public master key of key set pk.
verify(pk, sig, hash) == sig.key = pk /\ sig.hash = hash

\* rlp::encode(&RlpSig(sig)): the seal element carrying sig.
rlp_encode(sig) == << "rlpsig", sig.key, sig.hash >>
\* A byte string that is no RLP-encoded signature.
BadBytes == << "junk" >>
\* rlp::decode::<RlpSig>(bytes): Some(sig), or None for a DecoderError.
rlp_decode(bytes) ==
    IF Len(bytes) = 3 /\ bytes[1] = "rlpsig"
        THEN Some(Signature(bytes[2], bytes[3]))
        ELSE None
SealElements == { rlp_encode(Signature(k, h)) : k \in Epochs, h \in Hashes } \cup { BadBytes }

\* serde_json::to_vec(&Message) and serde_json::from_slice: the wire envelope.
json_encode(msg) == << "json", msg >>
json_decode(bytes) ==
    IF Len(bytes) = 2 /\ bytes[1] = "json" THEN Some(bytes[2]) ELSE None

\* ------------------------------------------------------ the host (client)
\* A lookup that takes a bound host for a living one.
client_arc_bound == client # "unbound"

\* HoneyBadgerBFT::client_arc: Some(client) only when a host is bound and still alive.
client_arc == client = "live"

\* ------------------------------------------------------------ HbbftState
\* HbbftState::new(): nothing is initialized before a host is registered.
NewHbbftState ==
    [ network_info |-> None, public_master_key |-> None,
      current_posdao_epoch |-> 0, honey_badger |-> None ]

\* A fresh HoneyBadger instance: its epoch is the number of the block to build next.
NewHoneyBadger(epoch) == [ epoch |-> epoch, has_input |-> FALSE, contribs |-> {} ]

\* HbbftState::update_honeybadger(client, signer, force): when the validator epoch on
\* chain differs from the cached one (or force), take the public key set from chain and,
\* when we hold a key share (a signer is set), rebuild NetworkInfo and the HoneyBadger
\* instance; an observer keeps only the public master key.
update_honeybadger(hs, has_signer, force) ==
    IF ~force /\ hs.current_posdao_epoch = chainEpoch
        THEN hs
        ELSE [ public_master_key |-> Some(chainEpoch),
               current_posdao_epoch |-> chainEpoch,
               network_info |-> IF has_signer THEN Some(chainEpoch) ELSE None,
               honey_badger |-> IF has_signer THEN Some(NewHoneyBadger(latest + 1)) ELSE None ]

\* A check that never consults the chain.
check_for_epoch_change_skipped(hs) == hs

\* HoneyBadgerBFT::check_for_epoch_change
check_for_epoch_change(hs) ==
    IF client_arc THEN update_honeybadger(hs, signer, FALSE) ELSE hs

\* ---------------------------------------------------------------- Sealing
Absent == [ kind |-> "Absent" ]
\* Sealing::Complete(sig)
Complete(sig) == [ kind |-> "Complete", sig |-> sig ]
\* Sealing::new(netinfo): a threshold-sign session of key set `key` with no document yet.
\* shares: the collected shares, as (sender, hash signed) pairs.
InProgress(key) ==
    [ kind |-> "InProgress", key |-> key, doc |-> None, shares |-> {}, terminated |-> FALSE ]

\* Sealing::signature
signature(entry) == IF entry.kind = "Complete" THEN Some(entry.sig) ELSE None

\* A sealing::Step: the share messages to send and the combined signature, if produced.
SealStep(msgs, out) == [ messages |-> msgs, output |-> out ]
EmptySealStep == SealStep({}, None)
ShareMsg(hash) == [ target |-> "AllExcept", set |-> {}, share |-> hash ]

\* The senders whose collected share is a valid share over hash.
ValidShares(shares, hash) == { p[1] : p \in { q \in shares : q[2] = hash } }

\* HoneyBadgerBFT::new_sealing: None stands for the panic "NetworkInfo not found".
new_sealing(hs) ==
    IF hs.network_info.some THEN Some(InProgress(hs.network_info.v)) ELSE None

\* Sealing::sign(hash) on an existing entry: [ok, entry, step].
\* A Complete or terminated session yields nothing; a session that already has a
\* document refuses a second one; otherwise the document is set, shares over other
\* hashes are discarded, our share is added and broadcast, and the signature is
\* combined once more than f valid shares are held.
Sealing_sign(entry, hash) ==
    IF entry.kind = "Complete" \/ entry.terminated
        THEN [ ok |-> TRUE, entry |-> entry, step |-> EmptySealStep ]
    ELSE IF entry.doc.some
        THEN [ ok |-> FALSE, entry |-> entry, step |-> EmptySealStep ]
    ELSE LET valid == ValidShares(entry.shares, hash) \cup {OurId}
             done == Cardinality(valid) > NumFaulty
         IN [ ok |-> TRUE,
              entry |-> [ entry EXCEPT !.doc = Some(hash),
                                       !.shares = { << n, hash >> : n \in valid },
                                       !.terminated = done ],
              step |-> SealStep({ ShareMsg(hash) },
                                IF done THEN Some(Signature(entry.key, hash)) ELSE None) ]

\* Sealing::handle_message(sender, share) on an existing entry: [ok, entry, step].
Sealing_handle_message(entry, sender, share) ==
    IF entry.kind = "Complete" \/ entry.terminated
        THEN [ ok |-> TRUE, entry |-> entry, step |-> EmptySealStep ]
    ELSE IF sender \notin Nodes
        THEN [ ok |-> FALSE, entry |-> entry, step |-> EmptySealStep ]
    ELSE IF ~entry.doc.some
        THEN [ ok |-> TRUE,
               entry |-> [ entry EXCEPT !.shares =
                              { q \in entry.shares : q[1] # sender } \cup { << sender, share >> } ],
               step |-> EmptySealStep ]
    ELSE IF share # entry.doc.v
        THEN [ ok |-> TRUE, entry |-> entry, step |-> EmptySealStep ]
    ELSE LET shares == entry.shares \cup { << sender, share >> }
             done == Cardinality(ValidShares(shares, share)) > NumFaulty
         IN [ ok |-> TRUE,
              entry |-> [ entry EXCEPT !.shares = shares, !.terminated = done ],
              step |-> SealStep({}, IF done THEN Some(Signature(entry.key, share)) ELSE None) ]

\* ------------------------------------------------------------ HoneyBadger
\* n - f contributions make a batch.
BatchThreshold == Cardinality(Nodes) - NumFaulty

\* A HoneyBadgerStep: outbound targeted messages (in order) and output batches (in order).
HbStep(msgs, out) == [ messages |-> msgs, output |-> out ]
EmptyHbStep == HbStep(<< >>, << >>)
\* Our proposal goes to everybody; the answer to a peer's contribution goes to that peer.
ProposalMsg(epoch) ==
    [ target |-> "AllExcept", set |-> {}, message |-> [ epoch |-> epoch, kind |-> "proposal" ] ]
ReplyMsg(epoch, peer) ==
    [ target |-> "Nodes", set |-> {peer, OurId}, message |-> [ epoch |-> epoch, kind |-> "reply" ] ]

\* The instance follows the chain: its epoch is never behind the next block to build.
SyncEpoch(hb) == IF latest + 1 > hb.epoch THEN NewHoneyBadger(latest + 1) ELSE hb

\* The contributions of a batch: who contributed, with what the batch says of each.
\* data is a function from nodes to contributions [timestamp, random_data].
Batch(epoch, who, data) == [ epoch |-> epoch, contributions |-> [ n \in who |-> data[n] ] ]

\* HoneyBadger after `who` contributed in its epoch: the batch is output once n - f
\* contributions are in, and the instance moves to the next epoch.
\* [hb, output]
Advance(hb, data) ==
    IF Cardinality(hb.contribs) >= BatchThreshold
        THEN [ hb |-> NewHoneyBadger(hb.epoch + 1),
               output |-> << Batch(hb.epoch, hb.contribs, data) >> ]
        ELSE [ hb |-> hb, output |-> << >> ]

\* HoneyBadger::propose: [hb, step]
Propose(hb, data) ==
    LET adv == Advance([ hb EXCEPT !.has_input = TRUE, !.contribs = @ \cup {OurId} ], data)
    IN [ hb |-> adv.hb, step |-> Some(HbStep(<< ProposalMsg(hb.epoch) >>, adv.output)) ]

\* HbbftState::try_send_contribution(client): propose unless we are no validator or
\* already have a contribution outstanding in the current epoch.  [hs, step]
try_send_contribution(hs, data) ==
    IF ~hs.honey_badger.some
        THEN [ hs |-> hs, step |-> None ]
    ELSE LET hb == SyncEpoch(hs.honey_badger.v)
         IN IF hb.has_input
                THEN [ hs |-> [ hs EXCEPT !.honey_badger = Some(hb) ], step |-> None ]
                ELSE LET p == Propose(hb, data)
                     IN [ hs |-> [ hs EXCEPT !.honey_badger = Some(p.hb) ], step |-> p.step ]

\* HbbftState::contribute_if_contribution_threshold_reached(client): the late-join rule.
contribute_if_contribution_threshold_reached(hs, data) ==
    IF ~hs.honey_badger.some
        THEN [ hs |-> hs, step |-> None ]
    ELSE LET hb == SyncEpoch(hs.honey_badger.v)
         IN IF ~hb.has_input /\ Cardinality(hb.contribs \ {OurId}) >= NumFaulty + 1
                THEN LET p == Propose(hb, data)
                     IN [ hs |-> [ hs EXCEPT !.honey_badger = Some(p.hb) ], step |-> p.step ]
                ELSE [ hs |-> [ hs EXCEPT !.honey_badger = Some(hb) ], step |-> None ]

\* HbbftState::process_message(client, sender, msg): None without a HoneyBadger instance
\* or for an unknown sender; an empty step for a message of another epoch or a repeated
\* contribution; otherwise the sender's contribution is taken in.  [hs, step]
process_message(hs, sender, msg, data) ==
    IF ~hs.honey_badger.some \/ sender \notin Nodes
        THEN [ hs |-> hs, step |-> None ]
    ELSE LET hb == SyncEpoch(hs.honey_badger.v)
         IN IF msg.epoch # hb.epoch \/ sender \in hb.contribs
                THEN [ hs |-> [ hs EXCEPT !.honey_badger = Some(hb) ], step |-> Some(EmptyHbStep) ]
                ELSE LET adv == Advance([ hb EXCEPT !.contribs = @ \cup {sender} ], data)
                     IN [ hs |-> [ hs EXCEPT !.honey_badger = Some(adv.hb) ],
                          step |-> Some(HbStep(<< ReplyMsg(hb.epoch, sender) >>, adv.output)) ]

\* -------------------------------------------------- batch data (process_output)
\* NodeIds in their natural order, the order in which a BTreeMap keyed by NodeId iterates.
NodeOrder == << "n1", "n2", "n3", "n4" >>
\* Node ids in their natural order; nx is no member of the committee.
IdOrder == NodeOrder \o << "nx" >>
\* The iterator over a set of node ids (BTreeSet::into_iter, NetworkInfo::all_ids,
\* the keys of BTreeMap::iter).
into_iter(S) == SelectSeq(IdOrder, LAMBDA p : p \in S)

\* random_data must hold at least this many bytes to count.
RandomLen == 32
Zero256 == [ i \in 1..RandomLen |-> 0 ]
\* Bytes are modelled as bits: XOR is addition modulo 2, bytewise.
BitXor(a, b) == [ i \in 1..RandomLen |-> (a[i] + b[i]) % 2 ]
\* U256::from(&random_data[0..32])
U256From(random_data) == [ i \in 1..RandomLen |-> random_data[i] ]

\* The fold of process_output over the contributions, taken in the order `order` of
\* their keys.
RECURSIVE FoldRandom(_, _, _)
FoldRandom(contributions, order, acc) ==
    IF order = << >> THEN acc
    ELSE LET c == contributions[Head(order)]
         IN FoldRandom(contributions, Tail(order),
                       IF Len(c.random_data) >= RandomLen
                           THEN BitXor(U256From(c.random_data), acc)
                           ELSE acc)
\* A fold that counts every contribution holding fewer than RandomLen bytes as well,
\* padded with zeros.
random_number_padded(batch) ==
    LET padded == [ n \in DOMAIN batch.contributions |->
                      [ random_data |-> [ i \in 1..RandomLen |->
                          IF i <= Len(batch.contributions[n].random_data)
                              THEN batch.contributions[n].random_data[i] ELSE 0 ] ] ]
    IN FoldRandom(padded, into_iter(DOMAIN batch.contributions), Zero256)
\* batch.contributions.iter().fold(U256::zero(), ..): the map iterates in key order.
random_number(batch) ==
    FoldRandom(batch.contributions, into_iter(DOMAIN batch.contributions), Zero256)

\* .sorted(): the contributions' timestamps in ascending order.
RECURSIVE SortedTimestamps(_, _)
SortedTimestamps(contributions, who) ==
    IF who = {} THEN << >>
    ELSE LET n == CHOOSE m \in who : \A o \in who : contributions[m].timestamp <= contributions[o].timestamp
         IN << contributions[n].timestamp >> \o SortedTimestamps(contributions, who \ {n})
\* The lower middle timestamp.
median_timestamp_lower(batch) ==
    LET ts == SortedTimestamps(batch.contributions, DOMAIN batch.contributions)
    IN IF Len(ts) = 0 THEN None ELSE Some(ts[((Len(ts) - 1) \div 2) + 1])
\* timestamps.nth(timestamps.len() / 2): None for an empty batch.
median_timestamp(batch) ==
    LET ts == SortedTimestamps(batch.contributions, DOMAIN batch.contributions)
    IN IF Len(ts) = 0 THEN None ELSE Some(ts[(Len(ts) \div 2) + 1])

\* ------------------------------------------------------ engine internals
\* The wire envelope (enum Message).
HoneyBadgerMsg(idx, msg) == [ tag |-> "HoneyBadger", idx |-> idx, msg |-> msg ]
SealingMsg(block_num, share) == [ tag |-> "Sealing", block |-> block_num, share |-> share ]

\* A handler works on the engine's fields and collects what it asks of the host:
\*   sent: send_consensus_message calls, steps: process_seal_step calls left holding a
\*   signature, batch: the epoch of the batch processed (0: none), requested: the
\*   create_pending_block_at calls made (timestamp, block_number), assembled: numbers of
\*   the pending headers obtained, panic: an expect failed.
Engine(hs) ==
    [ hs |-> hs, sealing |-> sealing, random_numbers |-> random_numbers,
      message_counter |-> message_counter, sent |-> {}, steps |-> sealSteps,
      batch |-> 0, requested |-> << >>, assembled |-> {}, panic |-> FALSE ]

\* The peers one targeted message goes to.
Recipients(m) ==
    IF m.target = "Nodes"
        THEN { n \in m.set : n # OurId }
        ELSE { n \in Nodes : n # OurId /\ n \notin m.set }

\* HoneyBadgerBFT::dispatch_messages: every message needs NetworkInfo (expect).
dispatch_messages(e, msgs) ==
    IF msgs = {} THEN e
    ELSE IF ~e.hs.network_info.some THEN [ e EXCEPT !.panic = TRUE ]
    ELSE [ e EXCEPT !.sent = @ \cup UNION
             { { [ to |-> n, bytes |-> json_encode(m.message) ] : n \in Recipients(m) } : m \in msgs } ]

\* HoneyBadgerBFT::process_seal_step, up to the point where the combined signature is
\* about to be stored: the shares are dispatched; a step with an output is left in
\* `steps` for StoreSignature.
process_seal_step(e, step, block_num) ==
    LET msgs == { [ target |-> m.target, set |-> m.set,
                    message |-> SealingMsg(block_num, m.share) ] : m \in step.messages }
        e1 == dispatch_messages(e, msgs)
    IN IF e1.panic \/ ~step.output.some
           THEN e1
           ELSE [ e1 EXCEPT !.steps = @ \cup { [ block |-> block_num, sig |-> step.output.v ] } ]

\* An entry lookup that keeps a session in progress but starts a new one over a
\* finished entry.
entry_or_insert_restart(m, hs, block_num) ==
    IF m[block_num].kind = "InProgress" THEN Some(m[block_num]) ELSE new_sealing(hs)

\* sealing.entry(block_num).or_insert_with(|| self.new_sealing()): None when new_sealing panics.
entry_or_insert(m, hs, block_num) ==
    IF m[block_num].kind # "Absent" THEN Some(m[block_num]) ELSE new_sealing(hs)

\* EngineClient::create_pending_block_at(txns, timestamp, block_number): the host builds
\* the pending block on its latest block and refuses any other number; pend is its answer
\* (None, or the bare hash of the pending header).
create_pending_block_at(block_number, pend) ==
    IF pend.some /\ block_number = latest + 1
        THEN Some([ number |-> block_number, hash |-> pend.v ])
        ELSE None

\* A table key one past the batch's epoch.
RandomKey_next(batch) == batch.epoch + 1

\* Where process_output records the random number of a batch.
RandomKey(batch) == batch.epoch

\* Batch processing that takes the last batch of the output.
process_output_last(e, output, pend) ==
    IF Len(output) = 0 THEN e
    ELSE LET batch == output[Len(output)]
             timestamp == median_timestamp(batch)
         IN IF ~timestamp.some THEN e
            ELSE [ e EXCEPT !.random_numbers[RandomKey(batch)] = Some(random_number(batch)),
                            !.batch = batch.epoch,
                            !.requested = Append(@, [ timestamp |-> timestamp.v,
                                                      block_number |-> batch.epoch ]) ]

\* HoneyBadgerBFT::process_output
process_output(e, output, pend) ==
    IF Len(output) = 0 THEN e
    ELSE LET batch == output[1]
             timestamp == median_timestamp(batch)
         IN IF ~timestamp.some THEN e
            ELSE LET e1 == [ e EXCEPT !.random_numbers[RandomKey(batch)] = Some(random_number(batch)),
                                      !.batch = batch.epoch,
                                      !.requested = Append(@, [ timestamp |-> timestamp.v,
                                                                block_number |-> batch.epoch ]) ]
                     header == create_pending_block_at(batch.epoch, pend)
                 IN IF ~header.some THEN e1
                    ELSE LET block_num == header.v.number
                             e2 == [ e1 EXCEPT !.assembled = @ \cup {block_num} ]
                             entry == entry_or_insert(e2.sealing, e2.hs, block_num)
                         IN IF ~entry.some THEN [ e2 EXCEPT !.panic = TRUE ]
                            ELSE LET r == Sealing_sign(entry.v, header.v.hash)
                                     e3 == [ e2 EXCEPT !.sealing[block_num] = r.entry ]
                                 IN IF r.ok THEN process_seal_step(e3, r.step, block_num) ELSE e3

\* HoneyBadgerBFT::process_step: number the messages, dispatch them, process the output.
process_step(e, step, pend) ==
    LET n == Len(step.messages)
        msgs == { [ target |-> step.messages[i].target, set |-> step.messages[i].set,
                    message |-> HoneyBadgerMsg(e.message_counter + i, step.messages[i].message) ]
                  : i \in 1..n }
        e1 == dispatch_messages([ e EXCEPT !.message_counter = @ + n ], msgs)
    IN IF e1.panic
           THEN [ e1 EXCEPT !.message_counter = e.message_counter + 1 ]
           ELSE process_output(e1, step.output, pend)

\* HoneyBadgerBFT::start_hbbft_epoch
start_hbbft_epoch(e, data, pend) ==
    LET r == try_send_contribution(e.hs, data)
        e1 == [ e EXCEPT !.hs = r.hs ]
    IN IF r.step.some THEN process_step(e1, r.step.v, pend) ELSE e1

\* HoneyBadgerBFT::join_hbbft_epoch (the client is known to be alive here)
join_hbbft_epoch(e, data, pend) ==
    LET r == contribute_if_contribution_threshold_reached(e.hs, data)
        e1 == [ e EXCEPT !.hs = r.hs ]
    IN IF r.step.some THEN process_step(e1, r.step.v, pend) ELSE e1

\* A trigger that looks at the block time only.
transaction_queue_and_time_thresholds_reached_time_only(header, now, queue_length) ==
    IF header.some
        THEN header.v + params.minimum_block_time <= now
        ELSE FALSE

\* HoneyBadgerBFT::transaction_queue_and_time_thresholds_reached; header is the host's
\* answer to block_header(Latest) (None, or the latest block's timestamp).
transaction_queue_and_time_thresholds_reached(header, now, queue_length) ==
    IF header.some
        THEN /\ header.v + params.minimum_block_time <= now
             /\ queue_length >= params.transaction_queue_size_trigger
        ELSE FALSE

\* ------------------------------------------------------------- the inputs
\* Peer ids the host may name as a sender: the peers that talk (one peer of the
\* committee stays silent, as a crashed node may) and a stranger.
Senders == {"n2", "n3", "nx"}
NodeIds == { None } \cup { Some(n) : n \in Senders }
\* The hash the talking peers signed shares over.
ShareHashes == {"ha"}
\* The byte strings peers send: junk, HoneyBadger contributions, sealing shares.
WireBytes ==
    { << "junk" >> }
      \cup { json_encode(HoneyBadgerMsg(1, [ epoch |-> ep, kind |-> "proposal" ])) : ep \in Blocks }
      \cup { json_encode(SealingMsg(b, h)) : b \in Blocks, h \in ShareHashes }
\* What a batch may say of one contribution.
ShortRandom == << 1 >>
LongRandom == [ i \in 1..(RandomLen + 1) |-> 1 ]
ShortData == [ timestamp |-> 0, random_data |-> ShortRandom ]
LongData == [ timestamp |-> MaxTime, random_data |-> LongRandom ]
DefaultData == [ n \in Nodes |-> LongData ]
BatchData ==
    { [ n \in Nodes |-> IF n \in S THEN ShortData ELSE LongData ] : S \in { {}, {"n2"}, Nodes } }
\* The host's answers to create_pending_block_at.
PendAnswers == { None } \cup { Some(h) : h \in Hashes }
\* The host's answers to block_header(Latest): None, or the latest block's timestamp.
HeaderAnswers == { None } \cup { Some(t) : t \in 0..MaxTime }
\* header.seal(): up to two elements.
Seals == { << >>, << BadBytes, BadBytes >> } \cup { << x >> : x \in SealElements }

\* -------------------------------------------------------------- the state
EngineInit ==
    /\ client = "unbound"
    /\ signer = FALSE
    /\ hbbft_state = NewHbbftState
    /\ sealing = [ b \in Blocks |-> Absent ]
    /\ random_numbers = [ b \in Blocks |-> None ]
    /\ message_counter = 0
    /\ params \in [ minimum_block_time : {1}, transaction_queue_size_trigger : {1},
                     block_reward_contract_address : { TRUE } ]
    /\ latest = 0
    /\ chainEpoch = 0
    /\ sealSteps = {}
    /\ sealed = None
    /\ batches = {}

\* The engine alone: the batch model is idle.
BatchIdle ==
    /\ committee = {}
    /\ honey_badgers = << >>
    /\ pending_blocks = << >>

\* The engine alone: no key generation is under way.
KeygenIdle ==
    /\ key_pairs = {}
    /\ threshold = 0
    /\ sync_keygen = << >>
    /\ acks = << >>
    /\ ack_outcomes = {}
    /\ keygen_pc = [ phase |-> "idle", s |-> 0, k |-> 0 ]

\* The engine alone: its operations are taken as atomic, no thread is inside one.
LocksIdle ==
    /\ script = << >>
    /\ held = << >>

\* The engine alone: none of the other models is running.
ExtraIdle ==
    /\ thread = << >>
    /\ outbox = << >>
    /\ proposed = << >>
    /\ targeted = None
    /\ sends = << >>
    /\ timer = None

Init == EngineInit /\ BatchIdle /\ KeygenIdle /\ LocksIdle /\ ExtraIdle

\* A handler ends: the engine's fields take the values it computed.
Commit(e) ==
    /\ hbbft_state' = e.hs
    /\ sealing' = e.sealing
    /\ random_numbers' = e.random_numbers
    /\ message_counter' = e.message_counter
    /\ sealSteps' = e.steps
    /\ batches' = batches \cup (IF e.batch = 0 THEN {} ELSE { e.batch })

\* ------------------------------------------------------- the environment
\* The host imports the next block; the block may start a new validator epoch.
HostImport ==
    /\ client = "live"
    /\ latest < MaxBlock
    /\ latest' = latest + 1
    /\ \E ne \in { chainEpoch, chainEpoch + 1 } :
          /\ ne <= MaxEpoch
          /\ chainEpoch' = ne
    /\ UNCHANGED << client, signer, hbbft_state, sealing, random_numbers, message_counter,
                    params, sealSteps, sealed, batches,
                    side_vars >>

\* The host goes away: the engine's weak reference no longer upgrades.
HostDrop ==
    /\ client = "live"
    /\ client' = "dropped"
    /\ UNCHANGED << signer, hbbft_state, sealing, random_numbers, message_counter, params,
                    latest, chainEpoch, sealSteps, sealed, batches,
                    side_vars >>

\* ---------------------------------------------------------- Engine calls
\* Engine::register_client: the host registers itself once, at start.
register_client ==
    /\ client = "unbound"
    /\ client' = "live"
    /\ hbbft_state' = update_honeybadger(hbbft_state, signer, TRUE)
    /\ UNCHANGED << signer, sealing, random_numbers, message_counter, params,
                    latest, chainEpoch, sealSteps, sealed, batches,
                    side_vars >>

\* Engine::set_signer
set_signer ==
    \E s \in BOOLEAN :
        /\ s # signer
        /\ signer' = s
        /\ hbbft_state' = IF client_arc THEN update_honeybadger(hbbft_state, s, TRUE)
                                        ELSE hbbft_state
        /\ UNCHANGED << client, sealing, random_numbers, message_counter, params,
                        latest, chainEpoch, sealSteps, sealed, batches,
                        side_vars >>

\* A split that also drops the entry of next_block itself.
split_off_after(m, next_block) == [ b \in Blocks |-> IF b > next_block THEN m[b] ELSE Absent ]

\* BTreeMap::split_off(&next_block): the entries with key >= next_block.
split_off(m, next_block) == [ b \in Blocks |-> IF b >= next_block THEN m[b] ELSE Absent ]

\* An answer that takes any session for the next block as a finished one.
ReadyToSeal_any_entry(m, next_block) ==
    IF m[next_block].kind # "Absent" THEN "Ready" ELSE "NotReady"

\* The answer of sealing_state once the map is purged.
ReadyToSeal(m, next_block) ==
    IF m[next_block].kind # "Absent" /\ signature(m[next_block]).some
        THEN "Ready" ELSE "NotReady"

\* Engine::sealing_state; known: the host answers block_number(Latest) with a number.
\* [sealing, ret]
sealing_state_result(known) ==
    IF ~client_arc \/ ~known
        THEN [ sealing |-> sealing, ret |-> "NotReady" ]
        ELSE LET kept == split_off(sealing, latest + 1)
             IN [ sealing |-> kept, ret |-> ReadyToSeal(kept, latest + 1) ]

sealing_state ==
    \E known \in IF client_arc THEN BOOLEAN ELSE { TRUE } :
        /\ sealing' = sealing_state_result(known).sealing
        /\ UNCHANGED << client, signer, hbbft_state, random_numbers, message_counter, params,
                        latest, chainEpoch, sealSteps, sealed, batches,
                        side_vars >>

\* C1: sealing_state answers Ready exactly when the host is bound, alive and reports a
\* latest block number L and the sealing map holds a Complete entry for L + 1; in every
\* other case (no host, a dropped host, no latest block number, no entry or an entry in
\* progress for L + 1) it answers NotReady.
C1_ReadyIffComplete ==
    \A known \in BOOLEAN :
        LET ret == sealing_state_result(known).ret
        IN /\ ret \in { "Ready", "NotReady" }
           /\ ret = "Ready" <=>
                 (client_arc /\ known /\ sealing[latest + 1].kind = "Complete")

\* A state in which sealing_state answers Ready: the entry of the next block is Complete.
C1_Witness ==
    /\ client_arc
    /\ sealing[latest + 1].kind = "Complete"
    /\ sealing_state_result(TRUE).ret = "Ready"
    /\ sealing_state_result(FALSE).ret = "NotReady"

\* C2: right after a sealing_state call that observes the host's latest block number L,
\* the sealing map has no entry with key <= L, and every entry with key >= L + 1 is the
\* entry that was there before the call.
C2_EvictionKeepsLater ==
    (client_arc) =>
        LET after == sealing_state_result(TRUE).sealing
        IN \A b \in Blocks :
              /\ b <= latest => after[b] = Absent
              /\ b >= latest + 1 => after[b] = sealing[b]

\* A call that evicts one entry and keeps another.
C2_Witness ==
    /\ client_arc
    /\ \E b \in Blocks : b <= latest /\ sealing[b] # Absent
                        /\ sealing_state_result(TRUE).sealing[b] = Absent
    /\ \E b \in Blocks : b >= latest + 1 /\ sealing[b] # Absent
                        /\ sealing_state_result(TRUE).sealing[b] = sealing[b]

\* The tail of process_seal_step: the combined signature is stored and the host is
\* asked to refresh sealing.
store_signature(m, block_num, sig) == [ m EXCEPT ![block_num] = Complete(sig) ]

StoreSignature ==
    \E s \in sealSteps :
        /\ sealing' = store_signature(sealing, s.block, s.sig)
        /\ sealSteps' = sealSteps \ {s}
        /\ UNCHANGED << client, signer, hbbft_state, random_numbers, message_counter, params,
                        latest, chainEpoch, sealed, batches,
                        side_vars >>

\* The result of a handler: the engine after it, and what it returned.
Result(e, ret) == [ e |-> e, ret |-> IF e.panic THEN "panic" ELSE ret ]

\* A share handler that takes the share of the latest block itself as still wanted.
process_sealing_message_late(e, share, sender_id, block_num, known) ==
    IF ~client_arc THEN Result(e, "RequiresClient")
    ELSE IF known /\ latest > block_num THEN Result(e, "Ok")
    ELSE LET entry == entry_or_insert(e.sealing, e.hs, block_num)
         IN IF ~entry.some THEN Result([ e EXCEPT !.panic = TRUE ], "panic")
            ELSE LET r == Sealing_handle_message(entry.v, sender_id, share)
                     e1 == [ e EXCEPT !.sealing[block_num] = r.entry ]
                 IN IF r.ok
                        THEN Result(process_seal_step(e1, r.step, block_num), "Ok")
                        ELSE Result(e1, "Ok")

\* HoneyBadgerBFT::process_sealing_message; known: the host answers block_number(Latest).
process_sealing_message(e, share, sender_id, block_num, known) ==
    IF ~client_arc THEN Result(e, "RequiresClient")
    ELSE IF known /\ latest >= block_num THEN Result(e, "Ok")
    ELSE LET entry == entry_or_insert(e.sealing, e.hs, block_num)
         IN IF ~entry.some THEN Result([ e EXCEPT !.panic = TRUE ], "panic")
            ELSE LET r == Sealing_handle_message(entry.v, sender_id, share)
                     e1 == [ e EXCEPT !.sealing[block_num] = r.entry ]
                 IN IF r.ok
                        THEN Result(process_seal_step(e1, r.step, block_num), "Ok")
                        ELSE Result(e1, "Ok")

\* A handler that feeds the message to Honey Badger and never tries to join the epoch.
process_hb_message_no_join(e, msg, sender_id, data, pend) ==
    IF ~client_arc THEN Result(e, "RequiresClient")
    ELSE LET r == process_message(e.hs, sender_id, msg, data)
             e1 == [ e EXCEPT !.hs = r.hs ]
         IN IF ~r.step.some THEN Result(e1, "Ok")
            ELSE Result(process_step(e1, r.step.v, pend), "Ok")

\* HoneyBadgerBFT::process_hb_message
process_hb_message(e, msg, sender_id, data, pend) ==
    IF ~client_arc THEN Result(e, "RequiresClient")
    ELSE LET r == process_message(e.hs, sender_id, msg, data)
             e1 == [ e EXCEPT !.hs = r.hs ]
         IN IF ~r.step.some THEN Result(e1, "Ok")
            ELSE LET e2 == process_step(e1, r.step.v, pend)
                 IN IF e2.panic THEN Result(e2, "panic")
                    ELSE Result(join_hbbft_epoch(e2, data, pend), "Ok")

\* A handler that decodes the envelope before it looks at the sender.
handle_message_result_decode_first(bytes, node_id, known, data, pend) ==
    LET e == Engine(check_for_epoch_change(hbbft_state))
        decoded == json_decode(bytes)
    IN IF ~decoded.some THEN Result(e, "MalformedMessage")
       ELSE IF ~node_id.some THEN Result(e, "UnexpectedMessage")
       ELSE IF decoded.v.tag = "HoneyBadger"
           THEN process_hb_message(e, decoded.v.msg, node_id.v, data, pend)
           ELSE process_sealing_message(e, decoded.v.share, node_id.v, decoded.v.block, known)

\* Engine::handle_message
handle_message_result(bytes, node_id, known, data, pend) ==
    LET e == Engine(check_for_epoch_change(hbbft_state))
        decoded == json_decode(bytes)
    IN IF ~node_id.some THEN Result(e, "UnexpectedMessage")
       ELSE IF ~decoded.some THEN Result(e, "MalformedMessage")
       ELSE IF decoded.v.tag = "HoneyBadger"
           THEN process_hb_message(e, decoded.v.msg, node_id.v, data, pend)
           ELSE process_sealing_message(e, decoded.v.share, node_id.v, decoded.v.block, known)

Tag(bytes) == IF json_decode(bytes).some THEN json_decode(bytes).v.tag ELSE "junk"
BlockOf(bytes) == IF Tag(bytes) = "Sealing" THEN json_decode(bytes).v.block ELSE 0

\* The handler got a batch out of HoneyBadger (only then do the batch's content and
\* the host's answer to create_pending_block_at matter).
GotBatch(e) == \E b \in Blocks : e.random_numbers[b].some /\ e.batch = b

handle_message ==
    \E bytes \in WireBytes, node_id \in NodeIds :
    \E known \in IF client_arc /\ node_id.some /\ Tag(bytes) = "Sealing" THEN BOOLEAN ELSE { TRUE } :
    \E data \in IF GotBatch(handle_message_result(bytes, node_id, known, DefaultData, None).e)
                   THEN BatchData ELSE { DefaultData } :
    \E pend \in IF GotBatch(handle_message_result(bytes, node_id, known, DefaultData, None).e)
                   THEN PendAnswers ELSE { None } :
        LET r == handle_message_result(bytes, node_id, known, data, pend)
        IN /\ r.e.message_counter <= MaxCounter
           /\ Commit(r.e)
           /\ UNCHANGED << client, signer, params, latest, chainEpoch, sealed, side_vars >>

\* Engine::on_transactions_imported
on_transactions_imported_result(header, now, queue_length, data, pend) ==
    LET e == Engine(check_for_epoch_change(hbbft_state))
    IN IF client_arc /\ transaction_queue_and_time_thresholds_reached(header, now, queue_length)
           THEN start_hbbft_epoch(e, data, pend)
           ELSE e

\* The handler sent our contribution proposal.
Proposed(e) == \E m \in e.sent : json_decode(m.bytes).v.tag = "HoneyBadger"
                                   /\ json_decode(m.bytes).v.msg.kind = "proposal"

on_transactions_imported ==
    \E header \in HeaderAnswers, now \in 0..MaxTime, queue_length \in 0..MaxQueue :
    \E data \in IF GotBatch(on_transactions_imported_result(header, now, queue_length, DefaultData, None))
                   THEN BatchData ELSE { DefaultData } :
    \E pend \in IF GotBatch(on_transactions_imported_result(header, now, queue_length, DefaultData, None))
                   THEN PendAnswers ELSE { None } :
        LET e == on_transactions_imported_result(header, now, queue_length, data, pend)
        IN /\ e.message_counter <= MaxCounter
           /\ Commit(e)
           /\ UNCHANGED << client, signer, params, latest, chainEpoch, sealed, side_vars >>

\* Engine::generate_engine_transactions
generate_engine_transactions_ret(numbers, block_number) ==
    IF numbers[block_number].some THEN "OkEmpty" ELSE "Custom"

\* The block only decides the value returned (generate_engine_transactions_ret); the
\* engine's state changes by the epoch-change check alone.
generate_engine_transactions ==
    /\ Commit(Engine(check_for_epoch_change(hbbft_state)))
    /\ UNCHANGED << client, signer, params, latest, chainEpoch, sealed, side_vars >>

\* A seal emission that skips the verification of the combined signature.
generate_seal_ret_unverified(m, hs, block_num, bare_hash) ==
    IF m[block_num].kind = "Complete"
        THEN [ kind |-> "Regular", seal |-> << rlp_encode(m[block_num].sig) >> ]
        ELSE [ kind |-> "None" ]

\* Engine::generate_seal: "None", "panic" (no public master key), or the Regular seal.
generate_seal_ret(m, hs, block_num, bare_hash) ==
    LET sig == IF m[block_num].kind = "Absent" THEN None ELSE signature(m[block_num])
    IN IF ~sig.some THEN [ kind |-> "None" ]
       ELSE IF ~hs.public_master_key.some THEN [ kind |-> "panic" ]
       ELSE IF ~verify(hs.public_master_key.v, sig.v, bare_hash) THEN [ kind |-> "None" ]
       ELSE [ kind |-> "Regular", seal |-> << rlp_encode(sig.v) >> ]

generate_seal ==
    \E block_num \in Blocks, bare_hash \in Hashes :
        LET ret == generate_seal_ret(sealing, hbbft_state, block_num, bare_hash)
        IN /\ sealed' = IF ret.kind = "Regular"
                            THEN Some([ number |-> block_num, hash |-> bare_hash, seal |-> ret.seal ])
                            ELSE sealed
           /\ UNCHANGED << client, signer, hbbft_state, sealing, random_numbers,
                           message_counter, params, latest, chainEpoch, sealSteps, batches,
                           side_vars >>

\* What verify_block_family takes as the latest block number: 0 without a host; None
\* when block_number(Latest).expect("must succeed") fails.
latest_block_nr(known) ==
    IF client_arc THEN (IF known THEN Some(latest) ELSE None) ELSE Some(0)

\* A family check that accepts no header beyond the latest block.
verify_block_family_ret_strict(hs, latest_nr, number, bare_hash, seal) ==
    IF ~latest_nr.some THEN "panic"
    ELSE IF number > latest_nr.v THEN "InvalidSeal"
    ELSE IF Len(seal) # 1 THEN "InvalidSeal"
    ELSE IF ~rlp_decode(seal[1]).some THEN "Decoder"
    ELSE IF ~hs.public_master_key.some THEN "panic"
    ELSE IF verify(hs.public_master_key.v, rlp_decode(seal[1]).v, bare_hash) THEN "Ok"
    ELSE "InvalidSeal"

\* Engine::verify_block_family after the epoch-change check.
verify_block_family_ret(hs, latest_nr, number, bare_hash, seal) ==
    IF ~latest_nr.some THEN "panic"
    ELSE IF number > latest_nr.v + 1 THEN "InvalidSeal"
    ELSE IF Len(seal) # 1 THEN "InvalidSeal"
    ELSE IF ~rlp_decode(seal[1]).some THEN "Decoder"
    ELSE IF ~hs.public_master_key.some THEN "panic"
    ELSE IF verify(hs.public_master_key.v, rlp_decode(seal[1]).v, bare_hash) THEN "Ok"
    ELSE "InvalidSeal"

verify_block_family_result(number, bare_hash, seal, known) ==
    verify_block_family_ret(check_for_epoch_change(hbbft_state), latest_block_nr(known),
                            number, bare_hash, seal)

\* The header only decides the value returned (verify_block_family_result); the
\* engine's state changes by the epoch-change check alone.
verify_block_family ==
    /\ Commit(Engine(check_for_epoch_change(hbbft_state)))
    /\ UNCHANGED << client, signer, params, latest, chainEpoch, sealed, side_vars >>

\* Engine::verify_local_seal: the epoch-change check, then Ok.  [hs, ret]
verify_local_seal_result == [ hs |-> check_for_epoch_change(hbbft_state), ret |-> "Ok" ]

verify_local_seal ==
    /\ Commit(Engine(verify_local_seal_result.hs))
    /\ UNCHANGED << client, signer, params, latest, chainEpoch, sealed, side_vars >>

\* Engine::verify_block_basic (phase 1): Ok and nothing else.  [hs, ret]
verify_block_basic_result == [ hs |-> hbbft_state, ret |-> "Ok" ]

verify_block_basic ==
    /\ Commit(Engine(verify_block_basic_result.hs))
    /\ UNCHANGED << client, signer, params, latest, chainEpoch, sealed, side_vars >>

\* Engine::verify_block_unordered (phase 2): Ok and nothing else.  [hs, ret]
verify_block_unordered_result == [ hs |-> hbbft_state, ret |-> "Ok" ]

verify_block_unordered ==
    /\ Commit(Engine(verify_block_unordered_result.hs))
    /\ UNCHANGED << client, signer, params, latest, chainEpoch, sealed, side_vars >>

\* Engine::verify_block_external (phase 4): Ok and nothing else.  [hs, ret]
verify_block_external_result == [ hs |-> hbbft_state, ret |-> "Ok" ]

verify_block_external ==
    /\ Commit(Engine(verify_block_external_result.hs))
    /\ UNCHANGED << client, signer, params, latest, chainEpoch, sealed, side_vars >>

\* What the chain answers to do_keygen: get_pending_validators (an error, the empty set
\* or a non-empty set), initialize_synckeygen over the Parts and Acks on chain (an error,
\* a session that is not ready, a session that is_ready) and is_pending_validator (an
\* error, no, yes).
PendingValidators == { "Err", "Empty", "NonEmpty" }
SyncKeyGens == { "Err", "NotReady", "Ready" }
IsPendingAnswers == { "Err", "No", "Yes" }

\* A probe that does not look at the pending validator set.
do_keygen_any_session(pending, synckeygen, is_pending) ==
    IF ~client_arc THEN [ ret |-> FALSE, sent |-> FALSE ]
    ELSE IF synckeygen = "Ready" THEN [ ret |-> TRUE, sent |-> FALSE ]
    ELSE [ ret |-> FALSE, sent |-> signer /\ is_pending = "Yes" ]

\* HoneyBadgerBFT::do_keygen: ret is the value returned, sent tells whether
\* send_keygen_transactions was called.
do_keygen(pending, synckeygen, is_pending) ==
    IF ~client_arc THEN [ ret |-> FALSE, sent |-> FALSE ]
    ELSE IF pending # "NonEmpty" THEN [ ret |-> FALSE, sent |-> FALSE ]
    ELSE IF synckeygen = "Ready" THEN [ ret |-> TRUE, sent |-> FALSE ]
    ELSE [ ret |-> FALSE, sent |-> signer /\ is_pending = "Yes" ]

\* Engine::on_close_block: the epoch-change check, then the reward call with the probe's
\* answer.  reward: the boolean passed to BlockRewardContract::reward (None: no call);
\* reward_ok: the contract call succeeds.  [hs, reward, sent, ret]
on_close_block_result(pending, synckeygen, is_pending, reward_ok) ==
    LET hs == check_for_epoch_change(hbbft_state)
    IN IF params.block_reward_contract_address
           THEN LET k == do_keygen(pending, synckeygen, is_pending)
                IN [ hs |-> hs, reward |-> Some(k.ret), sent |-> k.sent,
                     ret |-> IF reward_ok THEN "Ok" ELSE "Err" ]
           ELSE [ hs |-> hs, reward |-> None, sent |-> FALSE, ret |-> "Ok" ]

\* The chain's answers only decide what is passed to the contract and what is returned
\* (on_close_block_result); the engine's state changes by the epoch-change check alone.
on_close_block ==
    /\ Commit(Engine(on_close_block_result("Empty", "Err", "Err", TRUE).hs))
    /\ UNCHANGED << client, signer, params, latest, chainEpoch, sealed, side_vars >>

\* ------------------------------------------- one batch at several validators
Rank(n) == CHOOSE i \in 1..Len(NodeOrder) : NodeOrder[i] = n
\* The validators whose HoneyBadger instance is followed.
Observers == { "n1", "n2" }

\* NetworkInfo::num_faulty of a committee
num_faulty(net) == (Cardinality(net) - 1) \div 3

\* A BTreeMap<NodeId, Contribution> is the sequence of its << key, value >> entries in
\* iteration order.
Keys(m) == { m[i][1] : i \in 1..Len(m) }

\* A map that iterates in the order its keys were inserted.
BTreeMap_insert_push(m, k, v) ==
    IF k \in Keys(m)
        THEN [ i \in 1..Len(m) |-> IF m[i][1] = k THEN << k, v >> ELSE m[i] ]
        ELSE Append(m, << k, v >>)

\* BTreeMap::insert(k, v): the entries stay in key order.
BTreeMap_insert(m, k, v) ==
    IF k \in Keys(m)
        THEN [ i \in 1..Len(m) |-> IF m[i][1] = k THEN << k, v >> ELSE m[i] ]
        ELSE LET Before(e) == Rank(e[1]) < Rank(k)
                 After(e) == Rank(e[1]) > Rank(k)
             IN SelectSeq(m, Before) \o << << k, v >> >> \o SelectSeq(m, After)

\* Transactions: t4 carries a signature that does not recover.
Txn(id) == [ id |-> id, signed |-> id # "t4" ]
\* A serialized transaction, and bytes that decode to none.
rlp_txn(t) == << "rlptxn", t.id, t.signed >>
BadTxn == << "junk" >>
\* Decodable::decode(&Rlp::new(ser_txn)).ok()
decode_txn(ser) ==
    IF Len(ser) = 3 /\ ser[1] = "rlptxn" THEN Some([ id |-> ser[2], signed |-> ser[3] ]) ELSE None
\* SignedTransaction::new(txn).ok()
SignedTransaction_new(txn) == IF txn.signed THEN Some(txn.id) ELSE None

\* Contribution::new at each validator: its transactions, timestamp and random data.
Input(n) ==
    [ transactions |->
          CASE n = "n1" -> << rlp_txn(Txn("t1")), rlp_txn(Txn("t2")) >>
            [] n = "n2" -> << rlp_txn(Txn("t2")), rlp_txn(Txn("t3")) >>
            [] n = "n3" -> << BadTxn, rlp_txn(Txn("t1")) >>
            [] OTHER -> << rlp_txn(Txn("t4")), rlp_txn(Txn("t3")) >>,
      timestamp |-> IF n \in { "n1", "n3" } THEN MaxTime ELSE 0,
      random_data |-> IF n = "n3" THEN ShortRandom
                      ELSE [ i \in 1..(RandomLen + 1) |-> IF i <= Rank(n) THEN 1 ELSE 0 ] ]

\* HoneyBadger::builder(net_info).build(): epoch 0, nothing proposed, nothing output.
HoneyBadger_new ==
    [ epoch |-> 0, has_input |-> FALSE, contributions |-> << >>, output |-> << >> ]

\* The epoch ends with a batch once n - f contributions are agreed on.
HoneyBadger_advance(hb, net) ==
    IF Len(hb.contributions) >= Cardinality(net) - num_faulty(net)
        THEN [ epoch |-> hb.epoch + 1, has_input |-> FALSE, contributions |-> << >>,
               output |-> Append(hb.output, [ epoch |-> hb.epoch,
                                               contributions |-> hb.contributions ]) ]
        ELSE hb

\* A proposal that never closes the epoch by itself.
HoneyBadger_propose_deferred(hb, net, our_id, input) ==
    [ hb EXCEPT !.has_input = TRUE, !.contributions = BTreeMap_insert(@, our_id, input) ]

\* HoneyBadger::propose(input)
HoneyBadger_propose(hb, net, our_id, input) ==
    HoneyBadger_advance(
        [ hb EXCEPT !.has_input = TRUE, !.contributions = BTreeMap_insert(@, our_id, input) ],
        net)

\* HoneyBadger::handle_message, for the messages that complete a peer's contribution.
HoneyBadger_handle_message(hb, net, sender_id, contribution) ==
    HoneyBadger_advance(
        [ hb EXCEPT !.contributions = BTreeMap_insert(@, sender_id, contribution) ], net)

\* batch_txns of process_output: flatten, decode, de-duplicate keeping the first
\* occurrence, keep what validates as a signed transaction.
RECURSIVE FlatTransactions(_)
FlatTransactions(m) ==
    IF m = << >> THEN << >> ELSE Head(m)[2].transactions \o FlatTransactions(Tail(m))
RECURSIVE Decoded(_)
Decoded(sers) ==
    IF sers = << >> THEN << >>
    ELSE (IF decode_txn(Head(sers)).some THEN << decode_txn(Head(sers)).v >> ELSE << >>)
             \o Decoded(Tail(sers))
RECURSIVE Unique(_)
Unique(txns) ==
    IF txns = << >> THEN << >>
    ELSE LET front == Unique(SubSeq(txns, 1, Len(txns) - 1))
             t == txns[Len(txns)]
         IN IF \E i \in 1..Len(front) : front[i] = t THEN front ELSE Append(front, t)
RECURSIVE Signed_only(_)
Signed_only(txns) ==
    IF txns = << >> THEN << >>
    ELSE (IF SignedTransaction_new(Head(txns)).some
              THEN << SignedTransaction_new(Head(txns)).v >> ELSE << >>)
             \o Signed_only(Tail(txns))
batch_txns(contributions) == Signed_only(Unique(Decoded(FlatTransactions(contributions))))

\* The first half of process_output on a batch: the transactions and the timestamp it
\* hands to create_pending_block_at, and the random number it records.
pending_block(batch) ==
    LET b == [ epoch |-> batch.epoch,
               contributions |-> [ n \in Keys(batch.contributions) |->
                   (CHOOSE e \in { batch.contributions[i] : i \in 1..Len(batch.contributions) } :
                        e[1] = n)[2] ] ]
    IN [ batch |-> batch,
         transactions |-> batch_txns(batch.contributions),
         timestamp |-> median_timestamp(b),
         random_number |-> random_number(b) ]

\* A committee of one to four validators, every instance fresh.
BatchInit ==
    /\ EngineInit
    /\ committee \in { { NodeOrder[i] : i \in 1..k } : k \in 1..Len(NodeOrder) }
    /\ honey_badgers = [ n \in committee \cap Observers |-> HoneyBadger_new ]
    /\ pending_blocks = [ n \in committee \cap Observers |-> None ]
    /\ KeygenIdle
    /\ LocksIdle
    /\ ExtraIdle

\* A validator proposes its contribution.
honey_badger_propose ==
    \E n \in DOMAIN honey_badgers :
        /\ honey_badgers[n].epoch = 0
        /\ ~honey_badgers[n].has_input
        /\ honey_badgers' = [ honey_badgers EXCEPT
                                 ![n] = HoneyBadger_propose(@, committee, n, Input(n)) ]
        /\ UNCHANGED << engine_vars, committee, pending_blocks, keygen_vars, lock_vars, extra_vars >>

\* The contribution of a peer reaches a validator.
honey_badger_handle_message ==
    \E n \in DOMAIN honey_badgers :
    \E sender_id \in committee \ {n} :
        /\ honey_badgers[n].epoch = 0
        /\ sender_id \notin Keys(honey_badgers[n].contributions)
        /\ honey_badgers' = [ honey_badgers EXCEPT
                                 ![n] = HoneyBadger_handle_message(@, committee, sender_id,
                                                                   Input(sender_id)) ]
        /\ UNCHANGED << engine_vars, committee, pending_blocks, keygen_vars, lock_vars, extra_vars >>

\* A validator processes its first batch.
process_batch ==
    \E n \in DOMAIN honey_badgers :
        /\ Len(honey_badgers[n].output) > 0
        /\ ~pending_blocks[n].some
        /\ pending_blocks' = [ pending_blocks EXCEPT
                                  ![n] = Some(pending_block(honey_badgers[n].output[1])) ]
        /\ UNCHANGED << engine_vars, committee, honey_badgers, keygen_vars, lock_vars, extra_vars >>

BatchNext ==
    \/ honey_badger_propose
    \/ honey_badger_handle_message
    \/ process_batch

\* --------------------------------- key generation (hbbft_config_generator)
\* A threshold of half the nodes.
Threshold_half(num_nodes) == num_nodes \div 2

\* (num_nodes - 1) / 3, the t main hands to generate_keygens
Threshold(num_nodes) == (num_nodes - 1) \div 3

\* PartOutcome and AckOutcome
Valid(x) == [ kind |-> "Valid", v |-> x ]
Invalid == [ kind |-> "Invalid" ]

\* SyncKeyGen::new(our_id, ...): the session, with no Part and no Ack handled yet.
\* parts: the proposers whose Part is in; acks: << sender, proposer >> for every Ack in.
SyncKeyGen_new(our_id) == [ our_id |-> our_id, parts |-> {}, acks |-> {} ]

\* SyncKeyGen::handle_part(sender_id, part): a Part of an unknown node is invalid, a Part
\* seen before yields no second Ack, a new Part is stored and acknowledged.  [skg, outcome]
SyncKeyGen_handle_part(skg, sender_id) ==
    IF sender_id \notin key_pairs
        THEN [ skg |-> skg, outcome |-> Invalid ]
    ELSE IF sender_id \in skg.parts
        THEN [ skg |-> skg, outcome |-> Valid(None) ]
    ELSE [ skg |-> [ skg EXCEPT !.parts = @ \cup { sender_id } ],
           outcome |-> Valid(Some([ proposer |-> sender_id ])) ]

\* SyncKeyGen::handle_ack(sender_id, ack): an Ack of an unknown node or for a Part not
\* handled yet is invalid; otherwise the sender's values for that Part are stored.
SyncKeyGen_handle_ack(skg, sender_id, ack) ==
    IF sender_id \notin key_pairs \/ ack.proposer \notin skg.parts
        THEN [ skg |-> skg, outcome |-> Invalid ]
        ELSE [ skg |-> [ skg EXCEPT !.acks = @ \cup { << sender_id, ack.proposer >> } ],
               outcome |-> Valid(None) ]

\* A Part is complete with more than 2 t Acks.
is_complete(skg, proposer) ==
    Cardinality({ a \in skg.acks : a[2] = proposer }) > 2 * threshold
\* SyncKeyGen::is_ready: more than t Parts are complete.
is_ready(skg) ==
    Cardinality({ p \in skg.parts : is_complete(skg, p) }) > threshold
\* SyncKeyGen::generate: an error before is_ready; the PublicKeySet is the sum of the
\* commitments of the complete Parts (it stands for it: the set of their proposers), and
\* a node among key_pairs gets a SecretKeyShare.
generate(skg) ==
    IF ~is_ready(skg) THEN None
    ELSE Some([ public_key_set |-> { p \in skg.parts : is_complete(skg, p) },
                secret_key_share |-> IF skg.our_id \in key_pairs
                                         THEN Some(skg.our_id) ELSE None ])

\* The nodes of key_pairs in iteration order.
KeygenNode(i) == NodeOrder[i]
NumNodes == Cardinality(key_pairs)

\* generate_keygens before its loops: every node has its session and its Part.
KeygenInit ==
    /\ EngineInit
    /\ BatchIdle
    /\ key_pairs \in { { NodeOrder[i] : i \in 1..k } : k \in 1..Len(NodeOrder) }
    /\ threshold = Threshold(Cardinality(key_pairs))
    /\ sync_keygen = [ n \in key_pairs |-> SyncKeyGen_new(n) ]
    /\ acks = << >>
    /\ ack_outcomes = {}
    /\ keygen_pc = [ phase |-> "parts", s |-> 1, k |-> 1 ]
    /\ LocksIdle
    /\ ExtraIdle

\* The next position of a loop over s in 1..NumNodes and k in 1..last.
NextPosition(phase, last, then) ==
    IF keygen_pc.k < last THEN [ phase |-> phase, s |-> keygen_pc.s, k |-> keygen_pc.k + 1 ]
    ELSE IF keygen_pc.s < NumNodes THEN [ phase |-> phase, s |-> keygen_pc.s + 1, k |-> 1 ]
    ELSE [ phase |-> then, s |-> 1, k |-> 1 ]

\* One turn of "all SyncKeyGen process all parts": node s handles the Part of node k;
\* handle_part(..).unwrap() keeps the outcome with the node's id.
handle_part ==
    /\ keygen_pc.phase = "parts"
    /\ LET n == KeygenNode(keygen_pc.s)
           r == SyncKeyGen_handle_part(sync_keygen[n], KeygenNode(keygen_pc.k))
       IN /\ sync_keygen' = [ sync_keygen EXCEPT ![n] = r.skg ]
          /\ acks' = Append(acks, << n, r.outcome >>)
    /\ keygen_pc' = NextPosition("parts", NumNodes, "acks")
    /\ UNCHANGED << engine_vars, batch_vars, key_pairs, threshold, ack_outcomes, lock_vars, extra_vars >>

\* One turn of "all SyncKeyGen process all Acks": node s handles the k-th collected
\* outcome; an invalid PartOutcome or one without an Ack panics.
handle_ack ==
    /\ keygen_pc.phase = "acks"
    /\ LET n == KeygenNode(keygen_pc.s)
           a == acks[keygen_pc.k]
       IN IF a[2].kind # "Valid" \/ ~a[2].v.some
              THEN /\ keygen_pc' = [ keygen_pc EXCEPT !.phase = "panic" ]
                   /\ UNCHANGED << sync_keygen, ack_outcomes >>
              ELSE LET r == SyncKeyGen_handle_ack(sync_keygen[n], a[1], a[2].v.v)
                   IN /\ sync_keygen' = [ sync_keygen EXCEPT ![n] = r.skg ]
                      /\ ack_outcomes' = ack_outcomes \cup { r.outcome.kind }
                      /\ keygen_pc' = NextPosition("acks", Len(acks), "check")
    /\ UNCHANGED << engine_vars, batch_vars, key_pairs, threshold, acks, lock_vars, extra_vars >>

\* "Check all Ack Outcomes": an invalid one panics; otherwise the sessions are returned.
check_ack_outcomes ==
    /\ keygen_pc.phase = "check"
    /\ keygen_pc' = [ keygen_pc EXCEPT !.phase = IF "Invalid" \in ack_outcomes
                                                    THEN "panic" ELSE "done" ]
    /\ UNCHANGED << engine_vars, batch_vars, key_pairs, threshold, sync_keygen, acks,
                    ack_outcomes, lock_vars, extra_vars >>

KeygenNext ==
    \/ handle_part
    \/ handle_ack
    \/ check_ack_outcomes

\* ------------------------------------------------- locks and host calls
\* The timer thread and a host thread.
Threads == { "timer", "host" }
\* The engine's reader-writer locks, in the documented order of acquisition.
LockOrder == << "hbbft_state", "sealing", "random_numbers", "message_counter" >>
LockRank(l) == CHOOSE i \in 1..Len(LockOrder) : LockOrder[i] = l

\* The steps of an operation that matter here: taking a lock (.read() / .write()),
\* dropping the guard, and a call into the host.
Acquire(l, mode) == << [ op |-> "acquire", lock |-> l, mode |-> mode ] >>
Release(l) == << [ op |-> "release", lock |-> l ] >>
HostCall(call) == << [ op |-> "host", call |-> call ] >>

\* A method under hbbft_state.write() that looks into the sealing map.
with_hbbft_state_write_sealing ==
    Acquire("hbbft_state", "write") \o HostCall("chain reads")
        \o Acquire("sealing", "read") \o Release("sealing") \o Release("hbbft_state")
\* hbbft_state.write().<method>(client, ..): the guard lives to the end of the statement,
\* and the method reads the chain through the client it is given.
with_hbbft_state_write ==
    Acquire("hbbft_state", "write") \o HostCall("chain reads") \o Release("hbbft_state")

\* check_for_epoch_change; alive: client_arc() is Some.
check_for_epoch_change_steps(alive) == IF alive THEN with_hbbft_state_write ELSE << >>

\* hbbft_state.read() as a temporary: taken and dropped within one expression.
with_hbbft_state_read == Acquire("hbbft_state", "read") \o Release("hbbft_state")

\* new_sealing: hbbft_state.read() for the NetworkInfo.
new_sealing_steps == with_hbbft_state_read

\* dispatch_messages for one message (has_message) that has a recipient: NetworkInfo is
\* cloned under hbbft_state.read(), then the message is sent.
dispatch_messages_steps(has_message) ==
    IF has_message
        THEN with_hbbft_state_read \o HostCall("send_consensus_message")
        ELSE << >>

\* process_seal_step: dispatch, and with a combined signature store it and ask the host
\* to refresh sealing.
process_seal_step_steps(has_message, has_output) ==
    dispatch_messages_steps(has_message)
        \o (IF has_output
                THEN Acquire("sealing", "write") \o Release("sealing")
                         \o HostCall("update_sealing")
                ELSE << >>)

\* sealing.write().entry(b).or_insert_with(|| self.new_sealing()).<sign | handle_message>:
\* the sealing guard lives to the end of the let statement; absent: the entry is new.
with_sealing_entry(absent) ==
    Acquire("sealing", "write") \o (IF absent THEN new_sealing_steps ELSE << >>)
        \o Release("sealing")

\* The ways process_output can go: no batch; a batch the host assembles no block for; a
\* block whose share cannot be produced; a block signed in a new session; a block whose
\* share completes the signature of a session under way.
OutputCases == { "none", "no block", "sign error", "new session", "completed" }
process_output_steps(case) ==
    IF case = "none" THEN << >>
    ELSE Acquire("random_numbers", "write") \o Release("random_numbers")
             \o HostCall("create_pending_block_at")
             \o (CASE case = "no block" -> << >>
                   [] case = "sign error" -> with_sealing_entry(FALSE)
                   [] case = "new session" ->
                         with_sealing_entry(TRUE) \o process_seal_step_steps(TRUE, FALSE)
                   [] OTHER ->
                         with_sealing_entry(FALSE) \o process_seal_step_steps(TRUE, TRUE))

\* process_step: the message_counter guard is a local of the function and lives to its
\* end, across dispatch_messages and process_output.
process_step_steps(has_message, case) ==
    Acquire("message_counter", "write")
        \o dispatch_messages_steps(has_message)
        \o process_output_steps(case)
        \o Release("message_counter")

\* The steps Honey Badger can return: none, an empty one, one with a message and the
\* output handled as `case`.
HbSteps == { [ some |-> FALSE ] } \cup { [ some |-> TRUE, has_message |-> FALSE, case |-> "none" ] }
               \cup { [ some |-> TRUE, has_message |-> TRUE, case |-> c ] : c \in OutputCases }
optional_process_step(step) ==
    IF step.some THEN process_step_steps(step.has_message, step.case) ELSE << >>

\* start_hbbft_epoch and join_hbbft_epoch
start_hbbft_epoch_steps(step) == with_hbbft_state_write \o optional_process_step(step)
join_hbbft_epoch_steps(step) == with_hbbft_state_write \o optional_process_step(step)

\* process_hb_message
process_hb_message_steps(alive, step, joined) ==
    IF ~alive THEN << >>
    ELSE with_hbbft_state_write
             \o (IF step.some
                     THEN process_step_steps(step.has_message, step.case)
                              \o join_hbbft_epoch_steps(joined)
                     ELSE << >>)

\* process_sealing_message
process_sealing_message_steps(alive, obsolete, absent, ok, has_output) ==
    IF ~alive THEN << >>
    ELSE HostCall("block_number")
             \o (IF obsolete THEN << >>
                  ELSE with_sealing_entry(absent)
                           \o (IF ok THEN process_seal_step_steps(FALSE, has_output) ELSE << >>))

\* on_transactions_imported; reached: both thresholds hold.
on_transactions_imported_steps(alive, reached, step) ==
    check_for_epoch_change_steps(alive)
        \o (IF alive
                THEN HostCall("block_header")
                         \o (IF reached THEN start_hbbft_epoch_steps(step) ELSE << >>)
                ELSE << >>)

\* What a late join may return after a peer's message: nothing, or our proposal whose
\* batch, if any, opens a sealing session.
JoinSteps == { s \in HbSteps : s.some => s.has_message /\ s.case \in { "none", "new session" } }

\* Every operation a thread may run, as its steps.
Operations ==
    \* TransitionHandler::timeout
    { (IF alive THEN HostCall("update_sealing") ELSE << >>)
          \o on_transactions_imported_steps(alive, reached, step)
          \o (IF alive THEN HostCall("block_header") ELSE << >>)
      : alive \in BOOLEAN, reached \in BOOLEAN, step \in JoinSteps }
    \* Engine::on_transactions_imported
    \cup { on_transactions_imported_steps(alive, reached, step)
           : alive \in BOOLEAN, reached \in BOOLEAN, step \in HbSteps }
    \* Engine::handle_message with a HoneyBadger envelope
    \cup { check_for_epoch_change_steps(alive) \o process_hb_message_steps(alive, step, joined)
           : alive \in BOOLEAN, step \in HbSteps, joined \in JoinSteps }
    \* Engine::handle_message with a Sealing envelope
    \cup { check_for_epoch_change_steps(alive)
               \o process_sealing_message_steps(alive, obsolete, absent, ok, has_output)
           : alive \in BOOLEAN, obsolete \in BOOLEAN, absent \in BOOLEAN, ok \in BOOLEAN,
             has_output \in BOOLEAN }
    \* Engine::sealing_state
    \cup { HostCall("block_number") \o Acquire("sealing", "write") \o Release("sealing") }
    \* Engine::generate_seal: the sealing guard is a local and lives to the end
    \cup { Acquire("sealing", "read")
               \o (IF has_sig THEN with_hbbft_state_read ELSE << >>)
               \o Release("sealing")
           : has_sig \in BOOLEAN }
    \* Engine::verify_block_family
    \cup { check_for_epoch_change_steps(alive)
               \o (IF alive THEN HostCall("block_number") ELSE << >>)
               \o (IF verifies THEN with_hbbft_state_read ELSE << >>)
           : alive \in BOOLEAN, verifies \in BOOLEAN }
    \* Engine::generate_engine_transactions
    \cup { check_for_epoch_change_steps(alive)
               \o Acquire("random_numbers", "read") \o Release("random_numbers")
           : alive \in BOOLEAN }
    \* Engine::register_client, Engine::set_signer, Engine::verify_local_seal
    \cup { with_hbbft_state_write }
    \* Engine::on_close_block
    \cup { check_for_epoch_change_steps(TRUE) \o HostCall("chain reads") }

\* No thread is inside an operation.
LocksInit ==
    /\ EngineInit
    /\ BatchIdle
    /\ KeygenIdle
    /\ script = [ t \in Threads |-> << >> ]
    /\ held = [ t \in Threads |-> << >> ]
    /\ ExtraIdle

\* RwLock: any number of readers or one writer.
CanAcquire(t, l, mode) ==
    \A u \in Threads : \A i \in 1..Len(held[u]) :
        held[u][i].lock = l => (u # t /\ mode = "read" /\ held[u][i].mode = "read")

\* The sequence without its last entry for lock l.
RECURSIVE WithoutLast(_, _)
WithoutLast(h, l) ==
    IF h = << >> THEN << >>
    ELSE IF h[Len(h)].lock = l THEN SubSeq(h, 1, Len(h) - 1)
    ELSE Append(WithoutLast(SubSeq(h, 1, Len(h) - 1), l), h[Len(h)])

\* A thread enters an operation.
call ==
    \E t \in Threads, steps \in Operations :
        /\ script[t] = << >>
        /\ steps # << >>
        /\ script' = [ script EXCEPT ![t] = steps ]
        /\ UNCHANGED << engine_vars, batch_vars, keygen_vars, held, extra_vars >>

\* A thread takes the lock it is waiting for.
acquire ==
    \E t \in Threads :
        /\ script[t] # << >>
        /\ Head(script[t]).op = "acquire"
        /\ CanAcquire(t, Head(script[t]).lock, Head(script[t]).mode)
        /\ held' = [ held EXCEPT ![t] = Append(@, [ lock |-> Head(script[t]).lock,
                                                     mode |-> Head(script[t]).mode ]) ]
        /\ script' = [ script EXCEPT ![t] = Tail(@) ]
        /\ UNCHANGED << engine_vars, batch_vars, keygen_vars, extra_vars >>

\* A guard is dropped.
release ==
    \E t \in Threads :
        /\ script[t] # << >>
        /\ Head(script[t]).op = "release"
        /\ held' = [ held EXCEPT ![t] = WithoutLast(@, Head(script[t]).lock) ]
        /\ script' = [ script EXCEPT ![t] = Tail(@) ]
        /\ UNCHANGED << engine_vars, batch_vars, keygen_vars, extra_vars >>

\* A call into the host is made and returns.
host_call ==
    \E t \in Threads :
        /\ script[t] # << >>
        /\ Head(script[t]).op = "host"
        /\ script' = [ script EXCEPT ![t] = Tail(@) ]
        /\ UNCHANGED << engine_vars, batch_vars, keygen_vars, held, extra_vars >>

LocksNext ==
    \/ call
    \/ acquire
    \/ release
    \/ host_call

\* A thread inside an operation runs: a call into the host returns, a guard is dropped,
\* and a lock that becomes free again and again is eventually given to a thread that
\* waits for it (the RwLock is eventually fair).
LocksFairness ==
    \A t \in Threads :
        /\ WF_vars(host_call /\ script'[t] # script[t])
        /\ WF_vars(release /\ script'[t] # script[t])
        /\ SF_vars(acquire /\ script'[t] # script[t])

\* ------------------------------------- concurrent operations, by statement
\* A thread outside any operation.
Idle == [ at |-> "idle" ]

\* The thread holds the guard `message_counter` of process_step: from the first
\* statement of process_step to its end.
holds_message_counter(u) == thread[u].at \in { "number", "send", "process_output" }

\* A counter lock that lets every caller in.
message_counter_write_unguarded(t) == TRUE

\* self.message_counter.write() by thread t returns once no other thread holds the guard.
message_counter_write(t) == \A u \in Threads \ {t} : ~holds_message_counter(u)

\* Where a thread goes once it has obtained a step (or none) from HbbftState: into
\* process_step, or on to what follows (`after`: "join" or "return").
WithStep(step, after) ==
    IF step.some THEN [ at |-> "process_step", step |-> step.v, after |-> after ]
    ELSE Idle

\* The contributions a HbbftState call proposed: the key set and the HB epoch of each.
Proposals(hs, step) ==
    IF step.some
        THEN SelectSeq([ i \in 1..Len(step.v.messages) |->
                           << hs.network_info.v, step.v.messages[i].message.epoch,
                              step.v.messages[i].message.kind >> ],
                       LAMBDA x : x[3] = "proposal")
        ELSE << >>

\* A validator with a live host, right after register_client and set_signer.
ThreadsInit ==
    /\ client = "live"
    /\ signer = TRUE
    /\ latest = 0
    /\ chainEpoch = 0
    /\ hbbft_state = update_honeybadger(NewHbbftState, TRUE, TRUE)
    /\ sealing = [ b \in Blocks |-> Absent ]
    /\ random_numbers = [ b \in Blocks |-> None ]
    /\ message_counter = 0
    /\ params \in [ minimum_block_time : {1}, transaction_queue_size_trigger : {1},
                     block_reward_contract_address : { TRUE } ]
    /\ sealSteps = {}
    /\ sealed = None
    /\ batches = {}
    /\ BatchIdle
    /\ KeygenIdle
    /\ LocksIdle
    /\ thread = [ t \in Threads |-> Idle ]
    /\ outbox = << >>
    /\ proposed = << >>
    /\ targeted = None
    /\ sends = << >>
    /\ timer = None

\* What the steps of a thread before process_step leave alone.
thread_frame ==
    UNCHANGED << client, signer, sealing, random_numbers, message_counter, params, latest,
                 chainEpoch, sealSteps, sealed, batches, batch_vars, keygen_vars, lock_vars,
                 dispatch_vars, timer >>

\* The timer thread (TransitionHandler::timeout) or a host thread enters
\* on_transactions_imported.
enter_on_transactions_imported ==
    \E t \in Threads :
        /\ thread[t] = Idle
        /\ message_counter < MaxCounter
        /\ thread' = [ thread EXCEPT ![t] = [ at |-> "check", op |-> "on_transactions_imported" ] ]
        /\ UNCHANGED << hbbft_state, outbox, proposed >>
        /\ thread_frame

\* A host thread enters handle_message with a Honey Badger envelope of a peer.
enter_handle_message ==
    \E t \in Threads \ { "timer" }, bytes \in WireBytes, sender_id \in Senders \cap Nodes :
        /\ thread[t] = Idle
        /\ message_counter < MaxCounter
        /\ Tag(bytes) = "HoneyBadger"
        /\ thread' = [ thread EXCEPT ![t] = [ at |-> "check", op |-> "handle_message",
                                               msg |-> json_decode(bytes).v.msg,
                                               sender_id |-> sender_id ] ]
        /\ UNCHANGED << hbbft_state, outbox, proposed >>
        /\ thread_frame

\* self.check_for_epoch_change(), the first statement of both operations.
thread_check_for_epoch_change ==
    \E t \in Threads :
        /\ thread[t].at = "check"
        /\ hbbft_state' = check_for_epoch_change(hbbft_state)
        /\ thread' = [ thread EXCEPT ![t] =
                         IF @.op = "on_transactions_imported"
                             THEN [ at |-> "thresholds" ]
                             ELSE [ @ EXCEPT !.at = "process_message" ] ]
        /\ UNCHANGED << outbox, proposed >>
        /\ thread_frame

\* on_transactions_imported: the thresholds are read from the host.
thread_thresholds_reached ==
    \E t \in Threads :
    \E header \in HeaderAnswers, now \in { MaxTime }, queue_length \in { MaxQueue } :
        /\ thread[t].at = "thresholds"
        /\ thread' = [ thread EXCEPT ![t] =
                         IF transaction_queue_and_time_thresholds_reached(header, now, queue_length)
                             THEN [ at |-> "start_hbbft_epoch" ]
                             ELSE Idle ]
        /\ UNCHANGED << hbbft_state, outbox, proposed >>
        /\ thread_frame

\* A start that proposes whatever Honey Badger holds of us.
thread_start_hbbft_epoch_again ==
    \E t \in Threads :
        /\ thread[t].at = "start_hbbft_epoch"
        /\ hbbft_state.honey_badger.some
        /\ LET r == Propose(SyncEpoch(hbbft_state.honey_badger.v), DefaultData)
               hs == [ hbbft_state EXCEPT !.honey_badger = Some(r.hb) ]
           IN /\ hbbft_state' = hs
              /\ proposed' = proposed \o Proposals(hs, r.step)
              /\ thread' = [ thread EXCEPT ![t] = WithStep(r.step, "return") ]
        /\ UNCHANGED outbox
        /\ thread_frame

\* start_hbbft_epoch up to process_step: self.hbbft_state.write().try_send_contribution(..)
\* is one statement under the write guard.
thread_start_hbbft_epoch ==
    \E t \in Threads :
        /\ thread[t].at = "start_hbbft_epoch"
        /\ LET r == try_send_contribution(hbbft_state, DefaultData)
           IN /\ hbbft_state' = r.hs
              /\ proposed' = proposed \o Proposals(r.hs, r.step)
              /\ thread' = [ thread EXCEPT ![t] = WithStep(r.step, "return") ]
        /\ UNCHANGED outbox
        /\ thread_frame

\* process_hb_message up to process_step: self.hbbft_state.write().process_message(..).
thread_process_hb_message ==
    \E t \in Threads :
        /\ thread[t].at = "process_message"
        /\ LET r == process_message(hbbft_state, thread[t].sender_id, thread[t].msg, DefaultData)
           IN /\ hbbft_state' = r.hs
              /\ thread' = [ thread EXCEPT ![t] = WithStep(r.step, "join") ]
        /\ UNCHANGED << outbox, proposed >>
        /\ thread_frame

\* join_hbbft_epoch up to process_step:
\* self.hbbft_state.write().contribute_if_contribution_threshold_reached(..).
thread_join_hbbft_epoch ==
    \E t \in Threads :
        /\ thread[t].at = "join_hbbft_epoch"
        /\ LET r == contribute_if_contribution_threshold_reached(hbbft_state, DefaultData)
           IN /\ hbbft_state' = r.hs
              /\ proposed' = proposed \o Proposals(r.hs, r.step)
              /\ thread' = [ thread EXCEPT ![t] = WithStep(r.step, "return") ]
        /\ UNCHANGED outbox
        /\ thread_frame

\* process_step, first statement: let mut message_counter = self.message_counter.write().
process_step_lock ==
    \E t \in Threads :
        /\ thread[t].at = "process_step"
        /\ message_counter_write(t)
        /\ thread' = [ thread EXCEPT ![t] =
                         [ at |-> IF Len(@.step.messages) > 0 THEN "number" ELSE "process_output",
                           step |-> @.step, after |-> @.after, i |-> 1 ] ]
        /\ UNCHANGED << hbbft_state, outbox, proposed >>
        /\ thread_frame

\* The closure of the lazy map, run for message i when dispatch_messages asks for it:
\* the counter is incremented and the message is wrapped with its new value.
process_step_number ==
    \E t \in Threads :
        /\ thread[t].at = "number"
        /\ message_counter' = message_counter + 1
        /\ thread' = [ thread EXCEPT ![t] =
                         [ @ EXCEPT !.at = "send",
                                    !.step.messages[thread[t].i] =
                                        [ target |-> @.target, set |-> @.set,
                                          message |-> HoneyBadgerMsg(message_counter + 1, @.message) ] ] ]
        /\ UNCHANGED << client, signer, hbbft_state, sealing, random_numbers, params, latest,
                        chainEpoch, sealSteps, sealed, batches, batch_vars, keygen_vars,
                        lock_vars, outbox, proposed, dispatch_vars, timer >>

\* The body of dispatch_messages for message i: NetworkInfo is cloned (a missing one
\* panics, which ends the operation and drops the guard) and the message is sent.
process_step_send ==
    \E t \in Threads :
        /\ thread[t].at = "send"
        /\ LET m == thread[t].step.messages[thread[t].i]
           IN IF ~hbbft_state.network_info.some
                  THEN /\ thread' = [ thread EXCEPT ![t] = Idle ]
                       /\ UNCHANGED outbox
                  ELSE /\ outbox' = Append(outbox, [ bytes |-> json_encode(m.message),
                                                     to |-> Recipients(m) ])
                       /\ thread' = [ thread EXCEPT ![t] =
                                        IF @.i < Len(@.step.messages)
                                            THEN [ @ EXCEPT !.at = "number", !.i = @ + 1 ]
                                            ELSE [ @ EXCEPT !.at = "process_output" ] ]
        /\ UNCHANGED << hbbft_state, proposed >>
        /\ thread_frame

\* The envelopes a handler sent, each with the peers it went to.
Envelopes(sent) ==
    IF sent = {} THEN << >>
    ELSE LET bytes == CHOOSE b \in { m.bytes : m \in sent } : TRUE
         IN << [ bytes |-> bytes, to |-> { m.to : m \in { x \in sent : x.bytes = bytes } } ] >>

\* The last statement of process_step, self.process_output(client, step.output), and
\* the end of the function, where the guard is dropped.
process_step_output ==
    \E t \in { u \in Threads : thread[u].at = "process_output" } :
    \E pend \in IF Len(thread[t].step.output) > 0 THEN PendAnswers ELSE { None } :
        /\ thread[t].at = "process_output"
        /\ LET e == process_output(Engine(hbbft_state), thread[t].step.output, pend)
           IN /\ Commit(e)
              /\ outbox' = outbox \o Envelopes(e.sent)
        /\ thread' = [ thread EXCEPT ![t] =
                         IF @.after = "join" THEN [ at |-> "join_hbbft_epoch" ] ELSE Idle ]
        /\ UNCHANGED << client, signer, params, latest, chainEpoch, sealed, batch_vars,
                        keygen_vars, lock_vars, proposed, dispatch_vars, timer >>

ThreadsNext ==
    \/ enter_on_transactions_imported
    \/ enter_handle_message
    \/ thread_check_for_epoch_change
    \/ thread_thresholds_reached
    \/ thread_start_hbbft_epoch
    \/ thread_process_hb_message
    \/ thread_join_hbbft_epoch
    \/ process_step_lock
    \/ process_step_number
    \/ process_step_send
    \/ process_step_output
    \/ HostImport

\* ------------------------------------------------ dispatch of one message
\* A filter that only looks at the excluded set.
dispatch_filter_set_only(m, our_id, p) ==
    IF m.target = "Nodes" THEN TRUE ELSE p \notin m.set

\* The closures handed to filter() in dispatch_messages: |p| p != net_info.our_id() for
\* Target::Nodes, |p| p != &net_info.our_id() && !set.contains(p) for Target::AllExcept.
dispatch_filter(m, our_id, p) ==
    IF m.target = "Nodes" THEN p # our_id ELSE p # our_id /\ p \notin m.set

\* dispatch_messages has taken one TargetedMessage and cloned NetworkInfo: the iterator
\* of the for loop stands at its first element.  The committee has three or four
\* members, we are one of them.
DispatchInit ==
    /\ EngineInit
    /\ BatchIdle
    /\ KeygenIdle
    /\ LocksIdle
    /\ thread = << >>
    /\ outbox = << >>
    /\ proposed = << >>
    /\ \E target \in { "Nodes", "AllExcept" }, set \in SUBSET { IdOrder[i] : i \in 1..Len(IdOrder) } :
       \E all_ids \in { Nodes, Nodes \ { "n4" } }, our_id \in { "n1", "n2" } :
          targeted = Some([ message |-> [ target |-> target, set |-> set ],
                            all_ids |-> all_ids, our_id |-> our_id,
                            iter |-> into_iter(IF target = "Nodes" THEN set ELSE all_ids) ])
    /\ sends = << >>
    /\ timer = None

\* One turn of the for loop over the filtered iterator: the next id that passes the
\* filter is handed to client.send_consensus_message.
send_consensus_message ==
    /\ targeted.some
    /\ targeted.v.iter # << >>
    /\ dispatch_filter(targeted.v.message, targeted.v.our_id, Head(targeted.v.iter))
    /\ sends' = Append(sends, Head(targeted.v.iter))
    /\ targeted' = Some([ targeted.v EXCEPT !.iter = Tail(@) ])
    /\ UNCHANGED << engine_vars, batch_vars, keygen_vars, lock_vars, thread_vars, timer >>

\* The filter drops the next id.
filter_skip ==
    /\ targeted.some
    /\ targeted.v.iter # << >>
    /\ ~dispatch_filter(targeted.v.message, targeted.v.our_id, Head(targeted.v.iter))
    /\ targeted' = Some([ targeted.v EXCEPT !.iter = Tail(@) ])
    /\ UNCHANGED << engine_vars, batch_vars, keygen_vars, lock_vars, thread_vars, sends, timer >>

DispatchNext ==
    \/ send_consensus_message
    \/ filter_skip

\* ------------------------------------------- the output of one step (process_output)
\* random_data of one byte less than counts, of exactly the bytes that count, and of one
\* byte more.
Random31 == [ i \in 1..(RandomLen - 1) |-> 1 ]
Random32 == [ i \in 1..RandomLen |-> i % 2 ]
Random33 == [ i \in 1..(RandomLen + 1) |-> IF i <= RandomLen \div 2 \/ i > RandomLen THEN 1 ELSE 0 ]
\* What a proposer may have contributed; n4 has one contribution to make.
Contributions(n) ==
    IF n = "n4"
        THEN { [ timestamp |-> MaxTime, random_data |-> Random33 ] }
        ELSE { [ timestamp |-> 0, random_data |-> Random31 ],
               [ timestamp |-> MaxTime, random_data |-> Random32 ],
               [ timestamp |-> MaxTime + 1, random_data |-> Random33 ] }
\* The batches Honey Badger may output: an epoch and the contributions of some proposers.
OutputBatches ==
    UNION { { [ epoch |-> ep, contributions |-> c ]
              : c \in { d \in [ who -> UNION { Contributions(n) : n \in who } ] :
                           \A n \in who : d[n] \in Contributions(n) } }
            : ep \in Blocks, who \in (SUBSET Nodes) \ { {} } }
\* The batches that may follow the first one in the output of one step.
LaterBatches ==
    { [ epoch |-> ep, contributions |-> [ n \in Nodes \ { "n4" } |->
                                            [ timestamp |-> MaxTime + 1, random_data |-> Random33 ] ] ]
      : ep \in Blocks }
\* step.output: no batch, one batch, or two.
StepOutputs ==
    { << >> } \cup { << b >> : b \in OutputBatches }
              \cup { << b, l >> : b \in OutputBatches, l \in LaterBatches }

\* A validator with a live host, before any batch.
OutputInit ==
    /\ client = "live"
    /\ signer = TRUE
    /\ latest = 0
    /\ chainEpoch = 0
    /\ hbbft_state = update_honeybadger(NewHbbftState, TRUE, TRUE)
    /\ sealing = [ b \in Blocks |-> Absent ]
    /\ random_numbers = [ b \in Blocks |-> None ]
    /\ message_counter = 0
    /\ params \in [ minimum_block_time : {1}, transaction_queue_size_trigger : {1},
                     block_reward_contract_address : { TRUE } ]
    /\ sealSteps = {}
    /\ sealed = None
    /\ batches = {}
    /\ BatchIdle
    /\ KeygenIdle
    /\ LocksIdle
    /\ ExtraIdle

\* process_step hands the output of a Honey Badger step to process_output.
honey_badger_output ==
    \E output \in StepOutputs, pend \in PendAnswers :
        /\ Commit(process_output(Engine(hbbft_state), output, pend))
        /\ UNCHANGED << client, signer, params, latest, chainEpoch, sealed, side_vars >>

OutputNext ==
    \/ honey_badger_output
    \/ HostImport

\* ------------------------------------------- the timer (TransitionHandler)
\* Durations are counted in milliseconds.
DEFAULT_DURATION == 1000
\* Duration::from_secs, Duration::from_millis
from_secs(secs) == secs * 1000
from_millis(millis) == millis
max(a, b) == IF a >= b THEN a ELSE b
min(a, b) == IF a <= b THEN a ELSE b
\* Option::unwrap_or
unwrap_or(opt, default) == IF opt.some THEN opt.v ELSE default

\* The values of minimum_block_time (seconds) and of params.is_unit_test.
MaxBlockTime == 2
UnitTestFlags == { None, Some(FALSE), Some(TRUE) }
\* unix_now_millis(): instants before, at and after every next_block_time.
MaxNow == 4000
NowMillis == { t \in 0..MaxNow : \E s \in 0..(MaxNow \div 1000) : (t - from_secs(s)) \in { -1, 0, 1, 500 } }
\* Ticks are counted up to this number.
MaxTicks == 2

\* A duration that has run out is the shortest interval.
duration_remaining_since_last_block_clamped(header, now) ==
    IF header.some
        THEN LET next_block_time == from_secs(header.v + params.minimum_block_time)
             IN IF now >= next_block_time
                    THEN from_millis(1)
                    ELSE from_millis(next_block_time - now)
        ELSE DEFAULT_DURATION
\* TransitionHandler::duration_remaining_since_last_block; header is the host's answer to
\* block_header(Latest) (None, or the latest block's timestamp in seconds), now the
\* clock in milliseconds.  The difference of two instants of the clock fits u64, so
\* u64::try_from succeeds.
duration_remaining_since_last_block(header, now) ==
    IF header.some
        THEN LET next_block_time == from_secs(header.v + params.minimum_block_time)
             IN IF now >= next_block_time
                    THEN DEFAULT_DURATION
                    ELSE from_millis(next_block_time - now)
        ELSE DEFAULT_DURATION

\* The interval timeout re-arms the timer with.
timer_duration(header, now) ==
    IF client_arc
        THEN min(max(duration_remaining_since_last_block(header, now), from_millis(1)),
                 from_secs(params.minimum_block_time))
        ELSE DEFAULT_DURATION

\* HoneyBadgerBFT::new: the engine is fresh; the TransitionHandler is registered with
\* the IO service unless params.is_unit_test is Some(true).
\*   at: where the handler is (new: not initialized, waiting: between two ticks, or the
\*   statement of timeout to run next), armed: the interval of the one-shot timer, if it
\*   is set, calls: what the tick under way (or the last one) has called so far,
\*   ticks: the ticks begun, counted up to MaxTicks.
TimerInit ==
    /\ client = "unbound"
    /\ signer = FALSE
    /\ hbbft_state = NewHbbftState
    /\ sealing = [ b \in Blocks |-> Absent ]
    /\ random_numbers = [ b \in Blocks |-> None ]
    /\ message_counter = 0
    /\ params \in [ minimum_block_time : 0..MaxBlockTime, transaction_queue_size_trigger : {1},
                     block_reward_contract_address : { TRUE } ]
    /\ latest = 0
    /\ chainEpoch = 0
    /\ sealSteps = {}
    /\ sealed = None
    /\ batches = {}
    /\ BatchIdle
    /\ KeygenIdle
    /\ LocksIdle
    /\ thread = << >>
    /\ outbox = << >>
    /\ proposed = << >>
    /\ targeted = None
    /\ sends = << >>
    /\ \E is_unit_test \in UnitTestFlags :
          timer = Some([ is_unit_test |-> is_unit_test,
                         registered |-> ~unwrap_or(is_unit_test, FALSE),
                         at |-> "new", armed |-> None, calls |-> << >>, ticks |-> 0 ])

timer_frame ==
    UNCHANGED << client, signer, hbbft_state, sealing, random_numbers, message_counter, params,
                 latest, chainEpoch, sealSteps, sealed, batches, batch_vars, keygen_vars,
                 lock_vars, thread_vars, dispatch_vars >>

\* IoHandler::initialize: the IO service starts the handler's loop with a timer of 1 s.
initialize ==
    /\ timer.some
    /\ timer.v.registered
    /\ timer.v.at = "new"
    /\ timer' = Some([ timer.v EXCEPT !.at = "waiting", !.armed = Some(DEFAULT_DURATION) ])
    /\ timer_frame

\* The one-shot timer runs out: the IO service calls timeout.
timeout ==
    /\ timer.some
    /\ timer.v.at = "waiting"
    /\ timer.v.armed.some
    /\ timer' = Some([ timer.v EXCEPT !.at = "update_sealing", !.armed = None,
                                      !.calls = << >>, !.ticks = min(@ + 1, MaxTicks) ])
    /\ timer_frame

\* timeout: c.update_sealing(ForceUpdateSealing::No) when the host is bound and alive.
timeout_update_sealing ==
    /\ timer.some
    /\ timer.v.at = "update_sealing"
    /\ timer' = Some([ timer.v EXCEPT !.at = "on_transactions_imported",
                                      !.calls = IF client_arc THEN Append(@, "update_sealing")
                                                              ELSE @ ])
    /\ timer_frame

\* timeout: self.engine.on_transactions_imported()
timeout_on_transactions_imported ==
    /\ timer.some
    /\ timer.v.at = "on_transactions_imported"
    /\ \E header \in HeaderAnswers, now \in 0..MaxTime, queue_length \in 0..MaxQueue :
          LET e == on_transactions_imported_result(header, now, queue_length, DefaultData, None)
          IN /\ ~e.panic
             /\ Commit(e)
    /\ timer' = Some([ timer.v EXCEPT !.at = "register_timer_once",
                                      !.calls = Append(@, "on_transactions_imported") ])
    /\ UNCHANGED << client, signer, params, latest, chainEpoch, sealed, batch_vars, keygen_vars,
                    lock_vars, thread_vars, dispatch_vars >>

\* A tick that stops after on_transactions_imported when no host is there.
timeout_register_timer_once_with_host ==
    /\ timer.some
    /\ timer.v.at = "register_timer_once"
    /\ \E header \in HeaderAnswers, now \in NowMillis :
          timer' = Some([ timer.v EXCEPT
                            !.at = "waiting",
                            !.armed = IF client_arc THEN Some(timer_duration(header, now)) ELSE None,
                            !.calls = IF client_arc THEN Append(@, "register_timer_once") ELSE @ ])
    /\ timer_frame
\* timeout: io.register_timer_once(ENGINE_TIMEOUT_TOKEN, timer_duration)
timeout_register_timer_once ==
    /\ timer.some
    /\ timer.v.at = "register_timer_once"
    /\ \E header \in HeaderAnswers, now \in NowMillis :
          timer' = Some([ timer.v EXCEPT !.at = "waiting",
                                         !.armed = Some(timer_duration(header, now)),
                                         !.calls = Append(@, "register_timer_once") ])
    /\ timer_frame

TimerNext ==
    \/ initialize
    \/ timeout
    \/ timeout_update_sealing
    \/ timeout_on_transactions_imported
    \/ timeout_register_timer_once
    \/ register_client
    \/ HostDrop
    \/ HostImport

\* The IO service runs the handler: a timer that is set runs out, and a statement of
\* timeout that can run does.
TimerFairness ==
    /\ WF_vars(initialize)
    /\ WF_vars(timeout)
    /\ WF_vars(timeout_update_sealing)
    /\ WF_vars(timeout_on_transactions_imported)
    /\ WF_vars(timeout_register_timer_once)

\* ------------------------------------------------------------ properties
\* C3: for every block number b the sealing entry only moves forward while b is not
\* evicted: a Complete entry stays the very same entry (it never returns to InProgress
\* and its signature is never replaced), and an entry in progress stays in progress or
\* becomes Complete; an entry disappears only when sealing_state evicts it (b <= L).
C3_SealingMonotone ==
    [][ \A b \in Blocks :
          LET evicted == /\ client_arc
                         /\ b <= latest
                         /\ sealing' = sealing_state_result(TRUE).sealing
          IN /\ sealing[b].kind = "Complete" => (sealing'[b] = sealing[b] \/ evicted)
             /\ sealing[b].kind = "InProgress" =>
                   (sealing'[b].kind \in { "InProgress", "Complete" } \/ evicted) ]_vars

\* A Complete entry of a block not yet imported, for which a further share of a
\* committee member arrives and leaves the entry as it is.
C3_Witness ==
    \E b \in Blocks :
        /\ client_arc
        /\ b > latest
        /\ sealing[b].kind = "Complete"
        /\ LET r == handle_message_result(json_encode(SealingMsg(b, "ha")), Some("n3"),
                                          TRUE, DefaultData, None)
           IN r.ret = "Ok" /\ r.e.sealing[b] = sealing[b]

Acceptable(number, bare_hash, seal) ==
    LET hs == check_for_epoch_change(hbbft_state)
    IN /\ number <= (IF client_arc THEN latest ELSE 0) + 1
       /\ Len(seal) = 1
       /\ rlp_decode(seal[1]).some
       /\ hs.public_master_key.some
       /\ verify(hs.public_master_key.v, rlp_decode(seal[1]).v, bare_hash)

\* C5: verify_block_family returns Ok if and only if the header is acceptable, and every
\* other header (number > L + 1, a seal that is malformed or not of arity 1, a failed
\* verification) is rejected with InvalidSeal.
C5_VerifyOkElseInvalidSeal ==
    \A number \in Blocks, bare_hash \in Hashes, seal \in Seals :
        verify_block_family_result(number, bare_hash, seal, TRUE) =
            IF Acceptable(number, bare_hash, seal) THEN "Ok" ELSE "InvalidSeal"

\* C6: generate_seal returns a Regular seal of exactly one element, the encoded signature
\* of the Complete entry of the block's number, exactly when that entry exists and its
\* signature verifies against the cached public master key over the block's bare hash;
\* in every other case it returns None.
C6_GenerateSeal ==
    \A block_num \in Blocks, bare_hash \in Hashes :
        LET ret == generate_seal_ret(sealing, hbbft_state, block_num, bare_hash)
            entry == sealing[block_num]
            verifies == /\ entry.kind = "Complete"
                        /\ hbbft_state.public_master_key.some
                        /\ verify(hbbft_state.public_master_key.v, entry.sig, bare_hash)
        IN /\ ret.kind \in { "Regular", "None" }
           /\ ret.kind = "Regular" <=> verifies
           /\ ret.kind = "Regular" =>
                 /\ Len(ret.seal) = 1
                 /\ rlp_decode(ret.seal[1]) = Some(entry.sig)

\* A Complete entry whose signature is emitted for the hash it signs and withheld for
\* another hash.
C6_Witness ==
    \E block_num \in Blocks :
        /\ sealing[block_num].kind = "Complete"
        /\ generate_seal_ret(sealing, hbbft_state, block_num, "ha").kind = "Regular"
        /\ generate_seal_ret(sealing, hbbft_state, block_num, "hb").kind = "None"

\* The engine a dropped message leaves behind: only the epoch-change check has run.
Dropped(e) ==
    /\ e.hs = check_for_epoch_change(hbbft_state)
    /\ e.sealing = sealing
    /\ e.random_numbers = random_numbers
    /\ e.message_counter = message_counter
    /\ e.sent = {}
    /\ e.steps = sealSteps

\* C7: handle_message returns UnexpectedMessage whenever the sender is absent, whatever
\* the bytes, and MalformedMessage whenever the sender is present and the bytes decode
\* to no envelope; either way the message is dropped: no sealing entry is created or
\* changed, Honey Badger gets no input, the counter stays and nothing is sent.
C7_UnexpectedAndMalformed ==
    \A bytes \in WireBytes, node_id \in NodeIds :
        (~node_id.some \/ ~json_decode(bytes).some) =>
            \A known \in BOOLEAN, data \in BatchData, pend \in PendAnswers :
                LET r == handle_message_result(bytes, node_id, known, data, pend)
                IN /\ r.ret = IF ~node_id.some THEN "UnexpectedMessage" ELSE "MalformedMessage"
                   /\ Dropped(r.e)

\* A validator to which a contribution of n2 means something: without a sender it is
\* unexpected, junk from n2 is malformed, and both leave the engine alone.
C7_Witness ==
    LET hb == json_encode(HoneyBadgerMsg(1, [ epoch |-> latest + 1, kind |-> "proposal" ]))
    IN /\ client_arc
       /\ hbbft_state.honey_badger.some
       /\ handle_message_result(hb, Some("n2"), TRUE, DefaultData, None).e.message_counter
             > message_counter
       /\ handle_message_result(hb, None, TRUE, DefaultData, None).ret = "UnexpectedMessage"
       /\ handle_message_result(<< "junk" >>, None, TRUE, DefaultData, None).ret = "UnexpectedMessage"
       /\ handle_message_result(<< "junk" >>, Some("n2"), TRUE, DefaultData, None).ret = "MalformedMessage"

\* C8: a share Sealing(b, share) that arrives while the host's latest block number L is
\* >= b is dropped: handle_message returns Ok, the sealing map is as before, nothing is
\* dispatched and no signature is left to store (so the host is not asked to refresh
\* sealing).
C8_ObsoleteShareDropped ==
    \A b \in Blocks, h \in ShareHashes, s \in Senders :
        (client_arc /\ latest >= b) =>
            LET r == handle_message_result(json_encode(SealingMsg(b, h)), Some(s), TRUE,
                                           DefaultData, None)
            IN /\ r.ret = "Ok"
               /\ Dropped(r.e)

\* A validator without an entry for the latest block b: the share is dropped, while the
\* same share would open a session if the host did not report its latest block.
C8_Witness ==
    \E b \in Blocks :
        LET share == json_encode(SealingMsg(b, "ha"))
        IN /\ client_arc
           /\ latest >= b
           /\ hbbft_state.network_info.some
           /\ sealing[b] = Absent
           /\ handle_message_result(share, Some("n2"), TRUE, DefaultData, None).ret = "Ok"
           /\ handle_message_result(share, Some("n2"), TRUE, DefaultData, None).e.sealing = sealing
           /\ handle_message_result(share, Some("n2"), FALSE, DefaultData, None).e.sealing[b] # Absent

\* Our share over the pending block b has been produced (the host assembled b).
Signed(entry) ==
    \/ entry.kind = "Complete"
    \/ entry.kind = "InProgress" /\ entry.doc.some

\* C9: generate_engine_transactions returns the empty list for a block whose batch has
\* been processed and fails with Custom for every other block; and once batch
\* processing has assembled pending block b, the random-number table has an entry under b.
C9_RandomNumberEntry ==
    /\ \A b \in Blocks :
          generate_engine_transactions_ret(random_numbers, b) =
              IF b \in batches THEN "OkEmpty" ELSE "Custom"
    /\ \A b \in Blocks : Signed(sealing[b]) => random_numbers[b].some

\* One block's batch is processed and its pending block signed, another's is not.
C9_Witness ==
    /\ \E b \in Blocks :
          /\ b \in batches
          /\ sealing[b].kind = "InProgress" /\ sealing[b].doc.some
          /\ generate_engine_transactions_ret(random_numbers, b) = "OkEmpty"
    /\ \E b \in Blocks :
          /\ b \notin batches
          /\ generate_engine_transactions_ret(random_numbers, b) = "Custom"

\* (a) now >= latest_block.timestamp + minimum_block_time and (b) the queue holds at
\* least transaction_queue_size_trigger transactions, with the host and its latest
\* header available.
BothThresholds(header, now, queue_length) ==
    /\ client_arc
    /\ header.some
    /\ now >= header.v + params.minimum_block_time
    /\ queue_length >= params.transaction_queue_size_trigger

\* We are a validator with a Honey Badger instance and have no contribution
\* outstanding in the epoch of the next block.
CanContribute ==
    LET hs == check_for_epoch_change(hbbft_state)
    IN /\ hs.honey_badger.some
       /\ ~SyncEpoch(hs.honey_badger.v).has_input

\* C10 as stated: on_transactions_imported proposes the local contribution if and only
\* if both thresholds hold at that moment, and proposes nothing when either fails or
\* the host or its latest header is unavailable.
C10_ProposesIffThresholds ==
    \A header \in HeaderAnswers, now \in 0..MaxTime, queue_length \in 0..MaxQueue :
    \A data \in BatchData, pend \in PendAnswers :
        Proposed(on_transactions_imported_result(header, now, queue_length, data, pend))
            <=> BothThresholds(header, now, queue_length)

\* C10 amended: on_transactions_imported proposes the local contribution if and only if
\* both thresholds hold (host and latest header available) and the node is a validator
\* with no contribution of its own outstanding in the current epoch; it proposes
\* nothing otherwise.
C10_ProposesIffThresholdsAndFree ==
    \A header \in HeaderAnswers, now \in 0..MaxTime, queue_length \in 0..MaxQueue :
    \A data \in BatchData, pend \in PendAnswers :
        Proposed(on_transactions_imported_result(header, now, queue_length, data, pend))
            <=> (BothThresholds(header, now, queue_length) /\ CanContribute)

\* A validator free to contribute: it proposes when both thresholds hold and does not
\* when the queue is short or the minimum block time has not passed.
C10_Witness ==
    /\ client_arc
    /\ CanContribute
    /\ Proposed(on_transactions_imported_result(Some(0), 1, 1, DefaultData, None))
    /\ ~Proposed(on_transactions_imported_result(Some(0), 1, 0, DefaultData, None))
    /\ ~Proposed(on_transactions_imported_result(Some(1), 1, 1, DefaultData, None))
    /\ ~Proposed(on_transactions_imported_result(None, 1, 1, DefaultData, None))

\* The cached committee is the one on chain (as far as the host can be asked).
EpochCurrent(hs) == client_arc => hs.current_posdao_epoch = chainEpoch

\* The sealing sessions a handler opened are sessions of the committee on chain.
OpenedUnderChainKey(e) ==
    \A b \in Blocks :
        (client_arc /\ sealing[b] = Absent /\ e.sealing[b].kind = "InProgress")
            => e.sealing[b].key = chainEpoch

\* The hooks that run the epoch-change check before anything else: each leaves the
\* committee of the chain cached, opens sealing sessions under that committee only and
\* accepts seals of that committee only.
CheckingHooks ==
    /\ EpochCurrent(verify_local_seal_result.hs)
    /\ EpochCurrent(check_for_epoch_change(hbbft_state))
    /\ \A number \in Blocks, bare_hash \in Hashes, seal \in Seals :
          (client_arc /\ verify_block_family_result(number, bare_hash, seal, TRUE) = "Ok")
              => rlp_decode(seal[1]).v.key = chainEpoch
    /\ \A bytes \in WireBytes, node_id \in NodeIds, known \in BOOLEAN :
       \A data \in BatchData, pend \in PendAnswers :
          LET r == handle_message_result(bytes, node_id, known, data, pend)
          IN EpochCurrent(r.e.hs) /\ OpenedUnderChainKey(r.e)
    /\ \A header \in HeaderAnswers, now \in 0..MaxTime, queue_length \in 0..MaxQueue :
       \A data \in BatchData, pend \in PendAnswers :
          LET e == on_transactions_imported_result(header, now, queue_length, data, pend)
          IN EpochCurrent(e.hs) /\ OpenedUnderChainKey(e)
    /\ \A pending \in PendingValidators, synckeygen \in SyncKeyGens :
       \A is_pending \in IsPendingAnswers, reward_ok \in BOOLEAN :
          EpochCurrent(on_close_block_result(pending, synckeygen, is_pending, reward_ok).hs)

PeerContributions(hs) ==
    IF hs.honey_badger.some THEN SyncEpoch(hs.honey_badger.v).contribs \ {OurId} ELSE {}

\* We are a validator and have not contributed in the current epoch.
NotContributed(hs) == hs.honey_badger.some /\ ~SyncEpoch(hs.honey_badger.v).has_input

\* C12: late join.  When a peer's Honey Badger message has been processed, the engine
\* proposes its own contribution (the proposal is among the messages sent) exactly when
\* it has not contributed in the current epoch and contributions of at least f + 1
\* distinct peers are in; with fewer it does not propose.  The attempt follows every
\* processed message, so no state is left with f + 1 peer contributions and none of ours.
C12_LateJoin ==
    /\ \A bytes \in WireBytes, s \in Senders, data \in BatchData, pend \in PendAnswers :
          (client_arc /\ Tag(bytes) = "HoneyBadger") =>
              LET taken == process_message(check_for_epoch_change(hbbft_state), s,
                                           json_decode(bytes).v.msg, data)
                  r == handle_message_result(bytes, Some(s), TRUE, data, pend)
              IN /\ r.ret = "Ok"
                 /\ Proposed(r.e) <=>
                       /\ taken.step.some
                       /\ NotContributed(taken.hs)
                       /\ Cardinality(PeerContributions(taken.hs)) >= NumFaulty + 1
    /\ ~(NotContributed(hbbft_state)
           /\ Cardinality(PeerContributions(hbbft_state)) >= NumFaulty + 1)

\* A validator that has not contributed and holds the contribution of f peers: the
\* contribution of one more peer makes it propose, a repeated one does not.
C12_Witness ==
    LET hb(n) == handle_message_result(
                     json_encode(HoneyBadgerMsg(1, [ epoch |-> latest + 1, kind |-> "proposal" ])),
                     Some(n), TRUE, DefaultData, None)
    IN /\ client_arc
       /\ NotContributed(hbbft_state)
       /\ PeerContributions(check_for_epoch_change(hbbft_state)) = {"n2"}
       /\ Cardinality(PeerContributions(hbbft_state)) = NumFaulty
       /\ Proposed(hb("n3").e)
       /\ ~Proposed(hb("n2").e)
       /\ ~Proposed(hb("nx").e)

\* Two batches with the same epoch and the same contribution of the same validators.
SameBatch(x, y) ==
    /\ x.epoch = y.epoch
    /\ { x.contributions[i] : i \in 1..Len(x.contributions) }
          = { y.contributions[i] : i \in 1..Len(y.contributions) }

\* C13: two honest validators that process the same batch of at least n - f
\* contributions compute the same de-duplicated transaction list, the same median
\* timestamp and the same XOR random number, whatever the order in which the
\* contributions reached each of them and whatever each has proposed itself.
C13_BatchDeterminism ==
    \A a \in DOMAIN pending_blocks, b \in DOMAIN pending_blocks :
        (/\ pending_blocks[a].some
         /\ pending_blocks[b].some
         /\ SameBatch(pending_blocks[a].v.batch, pending_blocks[b].v.batch)
         /\ Len(pending_blocks[a].v.batch.contributions)
               >= Cardinality(committee) - num_faulty(committee))
            => /\ pending_blocks[a].v.transactions = pending_blocks[b].v.transactions
               /\ pending_blocks[a].v.timestamp = pending_blocks[b].v.timestamp
               /\ pending_blocks[a].v.random_number = pending_blocks[b].v.random_number

\* Both validators of a committee of four have processed the batch of n1, n2 and n3:
\* three transactions are left of six, one of them a duplicate and one undecodable.
C13_Witness ==
    /\ Cardinality(committee) = 4
    /\ pending_blocks["n1"].some
    /\ pending_blocks["n2"].some
    /\ Keys(pending_blocks["n1"].v.batch.contributions) = { "n1", "n2", "n3" }
    /\ SameBatch(pending_blocks["n1"].v.batch, pending_blocks["n2"].v.batch)
    /\ pending_blocks["n2"].v.transactions = << "t1", "t2", "t3" >>
    /\ pending_blocks["n2"].v.timestamp = Some(MaxTime)

\* C15: in a committee of one validator, proposing a contribution yields at once exactly
\* one output batch, for epoch 0, whose contributions hold that validator's input and
\* nothing else; and every output batch holds at least n - f contributions.
C15_SingleContribution ==
    /\ (committee = { "n1" } /\ honey_badgers["n1"] # HoneyBadger_new) =>
          honey_badgers["n1"].output =
              << [ epoch |-> 0, contributions |-> << << "n1", Input("n1") >> >> ] >>
    /\ \A n \in DOMAIN honey_badgers :
          \A i \in 1..Len(honey_badgers[n].output) :
              Len(honey_badgers[n].output[i].contributions)
                  >= Cardinality(committee) - num_faulty(committee)

\* The single validator has proposed and holds its batch.
C15_Witness ==
    /\ committee = { "n1" }
    /\ Len(honey_badgers["n1"].output) = 1
    /\ honey_badgers["n1"].output[1].epoch = 0

\* C14: for every committee of n >= 1 nodes with threshold floor((n - 1) / 3), once
\* every node has handled every node's Part and every resulting Ack, key generation has
\* ended on every node: no Part or Ack outcome was invalid, every session is_ready,
\* generate succeeds, all nodes hold the same PublicKeySet and every node of the
\* committee holds a SecretKeyShare.
C14_KeygenTerminates ==
    /\ keygen_pc.phase # "panic"
    /\ \A i \in 1..Len(acks) : acks[i][2].kind = "Valid"
    /\ "Invalid" \notin ack_outcomes
    /\ keygen_pc.phase \in { "check", "done" } =>
          \A n \in key_pairs :
              /\ sync_keygen[n].parts = key_pairs
              /\ is_ready(sync_keygen[n])
              /\ generate(sync_keygen[n]).some
              /\ generate(sync_keygen[n]).v.secret_key_share.some
              /\ \A m \in key_pairs :
                    generate(sync_keygen[m]).v.public_key_set
                        = generate(sync_keygen[n]).v.public_key_set

\* Four nodes are through: each holds four Parts and sixteen Acks.
C14_Witness ==
    /\ keygen_pc.phase = "done"
    /\ NumNodes = Len(NodeOrder)
    /\ \A n \in key_pairs : Cardinality(sync_keygen[n].acks) = NumNodes * NumNodes
    /\ \A n \in key_pairs : is_ready(sync_keygen[n])

\* C16: on_close_block passes true to the block-reward contract exactly when a key
\* generation round has just completed - the host is available, the pending validator
\* set read from chain is not empty and the session rebuilt from the Parts and Acks on
\* chain is_ready - and false otherwise; when the pending set is empty or cannot be read,
\* no keygen transaction is sent.
C16_RewardFlag ==
    \A pending \in PendingValidators, synckeygen \in SyncKeyGens :
    \A is_pending \in IsPendingAnswers, reward_ok \in BOOLEAN :
        LET r == on_close_block_result(pending, synckeygen, is_pending, reward_ok)
        IN /\ r.reward = Some(client_arc /\ pending = "NonEmpty" /\ synckeygen = "Ready")
           /\ pending # "NonEmpty" => ~r.sent

\* A validator with a live host: a ready session over a pending set yields true, the same
\* session without a pending set yields false, and a session that is not ready makes a
\* pending validator send its keygen transactions.
C16_Witness ==
    /\ client_arc
    /\ signer
    /\ on_close_block_result("NonEmpty", "Ready", "Yes", TRUE).reward = Some(TRUE)
    /\ on_close_block_result("Empty", "Ready", "Yes", TRUE).reward = Some(FALSE)
    /\ on_close_block_result("NonEmpty", "NotReady", "Yes", TRUE).reward = Some(FALSE)
    /\ on_close_block_result("NonEmpty", "NotReady", "Yes", TRUE).sent
    /\ ~on_close_block_result("Err", "NotReady", "Yes", TRUE).sent

\* The engine's fields are what they were, and nothing was sent.
Untouched(e) ==
    /\ e.hs = hbbft_state
    /\ e.sealing = sealing
    /\ e.random_numbers = random_numbers
    /\ e.message_counter = message_counter
    /\ e.sent = {}
    /\ e.steps = sealSteps
    /\ ~e.panic

\* C17: while no host is bound, or the weak host reference no longer upgrades, the
\* engine's operations leave its state alone: on_transactions_imported, the epoch-change
\* check and sealing_state (which answers NotReady) change nothing, and handle_message
\* with a sender and a decodable envelope fails with RequiresClient and changes neither
\* the sealing map nor the HB state, the random-number table or the sequence counter.
C17_NoHostNoOp ==
    client \in { "unbound", "dropped" } =>
        /\ check_for_epoch_change(hbbft_state) = hbbft_state
        /\ \A header \in HeaderAnswers, now \in 0..MaxTime, queue_length \in 0..MaxQueue :
           \A data \in BatchData, pend \in PendAnswers :
              Untouched(on_transactions_imported_result(header, now, queue_length, data, pend))
        /\ \A known \in BOOLEAN :
              /\ sealing_state_result(known).ret = "NotReady"
              /\ sealing_state_result(known).sealing = sealing
        /\ \A bytes \in WireBytes, s \in Senders, known \in BOOLEAN :
           \A data \in BatchData, pend \in PendAnswers :
              json_decode(bytes).some =>
                  LET r == handle_message_result(bytes, Some(s), known, data, pend)
                  IN r.ret = "RequiresClient" /\ Untouched(r.e)

\* The host went away from a validator that holds a sealing entry for a block already
\* imported and lags behind the chain's validator epoch: with the host alive,
\* sealing_state would evict the entry and the epoch-change check would rebuild the
\* committee.
C17_Witness ==
    /\ client = "dropped"
    /\ hbbft_state.honey_badger.some
    /\ hbbft_state.current_posdao_epoch # chainEpoch
    /\ \E b \in Blocks : b <= latest /\ sealing[b] # Absent
    /\ handle_message_result(json_encode(SealingMsg(latest + 1, "ha")), Some("n2"), TRUE,
                              DefaultData, None).ret = "RequiresClient"

\* C18: the locks a thread holds were taken in the documented order hbbft_state ->
\* sealing -> random_numbers -> message_counter: no thread has taken a lock that comes
\* earlier in this order while it held one that comes later.
C18_LockOrder ==
    \A t \in DOMAIN held :
        \A i \in 1..Len(held[t]), j \in 1..Len(held[t]) :
            i < j => LockRank(held[t][i].lock) <= LockRank(held[t][j].lock)

\* C19: no thread holds an engine lock at the moment it calls into the host
\* (send_consensus_message, create_pending_block_at, update_sealing, chain reads).
C19_NoLockAcrossHostCall ==
    \A t \in DOMAIN script :
        (script[t] # << >> /\ Head(script[t]).op = "host") => held[t] = << >>

\* C20: no public operation panics, whatever the state it is called in and whatever its
\* inputs: new_sealing and dispatch_messages find NetworkInfo established, generate_seal
\* and verify_block_family find the public master key set.
C20_NoPanic ==
    /\ \A bytes \in WireBytes, node_id \in NodeIds, known \in BOOLEAN :
       \A data \in BatchData, pend \in PendAnswers :
          handle_message_result(bytes, node_id, known, data, pend).ret # "panic"
    /\ \A header \in HeaderAnswers, now \in 0..MaxTime, queue_length \in 0..MaxQueue :
       \A data \in BatchData, pend \in PendAnswers :
          ~on_transactions_imported_result(header, now, queue_length, data, pend).panic
    /\ \A block_num \in Blocks, bare_hash \in Hashes :
          generate_seal_ret(sealing, hbbft_state, block_num, bare_hash).kind # "panic"
    /\ \A number \in Blocks, bare_hash \in Hashes, seal \in Seals :
          verify_block_family_result(number, bare_hash, seal, TRUE) # "panic"

\* C21: an honest node proposes its contribution at most once per HB epoch: whatever
\* the interleaving of timer ticks, on_transactions_imported calls of host threads and
\* late joins after handle_message, start_hbbft_epoch and join_hbbft_epoch never propose
\* a second time in an epoch of a Honey Badger instance that already holds our proposal.
C21_ProposesOncePerEpoch ==
    \A i \in 1..Len(proposed), j \in 1..Len(proposed) :
        i # j => proposed[i] # proposed[j]

\* The timer thread is about to start the epoch and the host thread about to join it,
\* while our contribution to that epoch is already proposed.
C21_Witness ==
    /\ Len(proposed) > 0
    /\ thread["timer"].at = "start_hbbft_epoch"
    /\ thread["host"].at = "join_hbbft_epoch"
    /\ hbbft_state.honey_badger.v.has_input
    /\ hbbft_state.honey_badger.v.epoch = latest + 1

\* The Honey Badger envelopes sent so far, in the order of dispatch.
SentHoneyBadger == SelectSeq(outbox, LAMBDA x : json_decode(x.bytes).v.tag = "HoneyBadger")

\* C22: the Honey Badger envelopes an engine sends carry strictly increasing sequence
\* numbers: whatever the interleaving of the process_step calls of the timer tick,
\* on_transactions_imported and handle_message, no two get the same number and the
\* k-th envelope dispatched carries the number k, starting at 1; Sealing envelopes take
\* no number.
C22_SequenceNumbers ==
    /\ \A k \in 1..Len(SentHoneyBadger) : json_decode(SentHoneyBadger[k].bytes).v.idx = k
    /\ message_counter =
          Len(SentHoneyBadger) + Cardinality({ t \in DOMAIN thread : thread[t].at = "send" })

\* Three Honey Badger envelopes and a Sealing envelope are out, and a thread waits for
\* the counter while the other thread is inside process_step.
C22_Witness ==
    /\ Len(SentHoneyBadger) >= 3
    /\ Len(outbox) > Len(SentHoneyBadger)
    /\ json_decode(outbox[Len(outbox)].bytes).v.tag = "HoneyBadger"
    /\ \E t \in Threads, u \in Threads :
          thread[t].at = "process_step" /\ holds_message_counter(u)

\* C23: a message addressed Nodes(S) is sent exactly once to every id of S other than
\* our own and to nobody else; a message addressed AllExcept(S) is sent exactly once to
\* every member of the committee that is neither in S nor ourselves, and to nobody else;
\* no message is ever sent to our own id.
C23_DispatchTargets ==
    targeted.some =>
        LET m == targeted.v.message
            self == targeted.v.our_id
            expected == IF m.target = "Nodes"
                            THEN m.set \ { self }
                            ELSE targeted.v.all_ids \ (m.set \cup { self })
        IN /\ \A i \in 1..Len(sends) : sends[i] # self /\ sends[i] \in expected
           /\ \A i \in 1..Len(sends), j \in 1..Len(sends) : i # j => sends[i] # sends[j]
           /\ targeted.v.iter = << >> =>
                 /\ { sends[i] : i \in 1..Len(sends) } = expected
                 /\ (self = OurId /\ targeted.v.all_ids = Nodes /\ m.set \subseteq Nodes) =>
                       Recipients(m) = expected

\* The loop is through for a message to all but n2 in a committee of four: it went to
\* n3 and n4 and not to us; and for a message addressed to us, a peer and a stranger.
C23_Witness ==
    /\ targeted.some
    /\ targeted.v.iter = << >>
    /\ targeted.v.our_id = "n1"
    /\ \/ /\ targeted.v.message = [ target |-> "AllExcept", set |-> { "n2" } ]
          /\ targeted.v.all_ids = Nodes
          /\ sends = << "n3", "n4" >>
       \/ /\ targeted.v.message = [ target |-> "Nodes", set |-> { "n1", "n3", "nx" } ]
          /\ sends = << "n3", "nx" >>

\* The Sealing envelopes among the messages a handler sent.
SealingSent(e) == { json_decode(m.bytes).v : m \in { x \in e.sent : Tag(x.bytes) = "Sealing" } }

\* What batch processing owes the sealing map, given the host's answer `pend` to
\* create_pending_block_at: with a header of number b the entry of b exists, our share
\* over the header's bare hash went out, and every share sent is tagged Sealing(b, ..);
\* without a header the sealing map is as before and no share is sent.
SignsPendingBlock(e, pend) ==
    /\ \A b \in e.assembled :
          /\ e.sealing[b] # Absent
          /\ sealing[b].kind = "Complete" => e.sealing[b] = sealing[b]
          /\ SealingMsg(b, pend.v) \in SealingSent(e)
          /\ \A m \in SealingSent(e) : m.block = b
    /\ e.assembled = {} => (e.sealing = sealing /\ SealingSent(e) = {})

\* C24: when batch processing obtains a pending block header with number b from the
\* host, the sealing entry for b exists afterwards (created if absent, continued if
\* present), our share over the header's bare hash is produced and every resulting share
\* message is dispatched tagged Sealing(b, ..); when the host returns no header, no
\* sealing entry is created and no share is sent.
C24_PendingBlockSigned ==
    \A output \in StepOutputs, pend \in PendAnswers :
        SignsPendingBlock(process_output(Engine(hbbft_state), output, pend), pend)

\* The engine of OutputInit, as a handler sees it.
FreshEngine ==
    [ Engine(update_honeybadger(NewHbbftState, TRUE, TRUE))
        EXCEPT !.sealing = [ b \in Blocks |-> Absent ],
               !.random_numbers = [ b \in Blocks |-> None ],
               !.steps = {} ]

\* C25: when the output of one step carries more than one batch, only the first batch is
\* processed: exactly one random number is recorded, under the first batch's epoch, and
\* one pending block at most is requested from the host, for that epoch; the remaining
\* batches change no engine state; an output without a batch records nothing.
C25_OnlyFirstBatch ==
    \A pend \in PendAnswers :
        /\ process_output(Engine(hbbft_state), << >>, pend) = Engine(hbbft_state)
        /\ \A b \in OutputBatches, l \in LaterBatches :
              LET r == process_output(Engine(hbbft_state), << b, l >>, pend)
              IN /\ r = process_output(Engine(hbbft_state), << b >>, pend)
                 /\ r.random_numbers[b.epoch] = Some(random_number(b))
                 /\ \A k \in Blocks \ { b.epoch } :
                       /\ r.random_numbers[k] = random_numbers[k]
                       /\ r.sealing[k] = sealing[k]
                 /\ Len(r.requested) <= 1
                 /\ \A i \in 1..Len(r.requested) : r.requested[i].block_number = b.epoch
                 /\ r.assembled \subseteq { b.epoch }
                 /\ r.batch = b.epoch
                 /\ r.hs = hbbft_state
                 /\ r.message_counter = message_counter

\* The engine is as a step with a batch of epoch 1 followed by a batch of epoch 2 leaves
\* a fresh validator: block 1 has its random number and its signed sealing entry, block 2
\* has neither.
C25_Witness ==
    /\ latest = 0
    /\ batches = { 1 }
    /\ random_numbers[2] = None
    /\ sealing[2] = Absent
    /\ sealing[1].kind = "InProgress"
    /\ \E b \in OutputBatches, l \in LaterBatches, pend \in PendAnswers :
          /\ b.epoch = 1
          /\ l.epoch = 2
          /\ random_number(l) # random_number(b)
          /\ LET r == process_output(FreshEngine, << b, l >>, pend)
             IN /\ sealing = r.sealing
                /\ random_numbers = r.random_numbers

\* The contributions of a batch that count: random_data of RandomLen bytes or more.
Qualifying(batch) ==
    { n \in DOMAIN batch.contributions : Len(batch.contributions[n].random_data) >= RandomLen }
\* XOR bit by bit: a bit is set when an odd number of the qualifying contributions set it.
XorOf(batch) ==
    [ i \in 1..RandomLen |->
        Cardinality({ n \in Qualifying(batch) : batch.contributions[n].random_data[i] = 1 }) % 2 ]
\* Every order in which the members of S can be taken.
Orders(S) ==
    { o \in [ 1..Cardinality(S) -> S ] : \A i, j \in 1..Cardinality(S) : o[i] = o[j] => i = j }

\* C28: the random number recorded for a batch is the bitwise XOR of the first 32 bytes of
\* random_data over exactly the contributions whose random_data has at least 32 bytes;
\* shorter contributions do not affect it, the order of the contributions does not
\* matter, it is zero when no contribution qualifies, and it is recorded under the
\* batch's epoch also when the host assembles no pending block.
C28_RandomNumber ==
    /\ \A b \in OutputBatches, pend \in PendAnswers :
          LET r == process_output(Engine(hbbft_state), << b >>, pend)
          IN /\ r.random_numbers[b.epoch] = Some(XorOf(b))
             /\ Qualifying(b) = {} => r.random_numbers[b.epoch] = Some(Zero256)
             /\ \A k \in Blocks \ { b.epoch } : r.random_numbers[k] = random_numbers[k]
    /\ batches = {} =>
          \A b \in OutputBatches : \A o \in Orders(DOMAIN b.contributions) :
              FoldRandom(b.contributions, o, Zero256) = XorOf(b)

\* The host refused the pending block of a batch of epoch 2 to which n1 contributed 31
\* bytes, n2 32 bytes and n3 33 bytes: the random number of block 2 is the XOR of the
\* contributions of n2 and n3, and it is neither zero nor one of the two.
C28_Witness ==
    /\ latest = 0
    /\ sealing[2] = Absent
    /\ batches = { 2 }
    /\ random_numbers[2] = Some(BitXor(Random32, U256From(Random33)))
    /\ random_numbers[2].v \notin { Zero256, Random32, U256From(Random33) }
    /\ \E b \in OutputBatches :
          /\ b.epoch = 2
          /\ DOMAIN b.contributions = { "n1", "n2", "n3" }
          /\ b.contributions["n1"].random_data = Random31
          /\ b.contributions["n2"].random_data = Random32
          /\ b.contributions["n3"].random_data = Random33
          /\ process_output(FreshEngine, << b >>, None).random_numbers = random_numbers

\* C29: the timestamp given to the host for the pending block is the median of the
\* batch's contribution timestamps: with k >= 1 contributions it is the element at index
\* floor(k/2) of the timestamps in ascending order (the upper middle one when k is even),
\* it is one of the contributed timestamps, and a batch that is not empty always yields
\* a timestamp.
C29_MedianTimestamp ==
    \A b \in OutputBatches, pend \in PendAnswers :
        LET r == process_output(Engine(hbbft_state), << b >>, pend)
            c == b.contributions
            k == Cardinality(DOMAIN c)
        IN /\ Len(r.requested) = 1
           /\ r.requested[1].block_number = b.epoch
           /\ LET t == r.requested[1].timestamp
              IN /\ t \in { c[n].timestamp : n \in DOMAIN c }
                 /\ Cardinality({ n \in DOMAIN c : c[n].timestamp < t }) <= k \div 2
                 /\ Cardinality({ n \in DOMAIN c : c[n].timestamp <= t }) > k \div 2

\* A batch of two contributions with different timestamps has been processed: the
\* pending block was requested with the later one.
C29_Witness ==
    /\ batches # {}
    /\ \E b \in OutputBatches :
          /\ b.epoch \in batches
          /\ DOMAIN b.contributions = { "n2", "n3" }
          /\ b.contributions["n2"].timestamp = MaxTime + 1
          /\ b.contributions["n3"].timestamp = 0
          /\ random_numbers[b.epoch] = Some(random_number(b))
          /\ process_output(Engine(hbbft_state), << b >>, None).requested
                = << [ timestamp |-> MaxTime + 1, block_number |-> b.epoch ] >>

\* clamp(x, lo, hi)
Clamp(x, lo, hi) == min(max(x, lo), hi)

TickOrder(AsksHost) ==
    /\ timer.v.at \in { "new", "update_sealing" } => timer.v.calls = << >>
    /\ timer.v.at = "on_transactions_imported" =>
          timer.v.calls \in { << "update_sealing" >> } \cup (IF AsksHost THEN {} ELSE { << >> })
    /\ timer.v.at = "register_timer_once" =>
          timer.v.calls \in { << "update_sealing", "on_transactions_imported" >> }
                              \cup (IF AsksHost THEN {} ELSE { << "on_transactions_imported" >> })
    /\ (timer.v.at = "waiting" /\ timer.v.ticks > 0) =>
          /\ timer.v.armed.some
          /\ timer.v.calls \in
                { << "update_sealing", "on_transactions_imported", "register_timer_once" >> }
                  \cup (IF AsksHost THEN {}
                                    ELSE { << "on_transactions_imported", "register_timer_once" >> })
\* The host is asked exactly when it is bound and alive at that statement.
AsksLivingHost ==
    (timer.v.at = "update_sealing" /\ timer'.v.at # "update_sealing") =>
        timer'.v.calls = IF client = "live" THEN << "update_sealing" >> ELSE << >>
\* Once the handler is registered ticks never stop, and every tick re-arms the timer.
TicksForever ==
    /\ []<><<timeout>>_vars \/ [](~timer.v.registered)
    /\ (timer.v.at = "update_sealing") ~> (timer.v.at = "waiting" /\ timer.v.armed.some)
\* The handler is registered unless the engine is built in unit-test mode, where the
\* timer is never set and no tick begins.
UnitTestMode ==
    /\ timer.v.registered = (timer.v.is_unit_test # Some(TRUE))
    /\ ~timer.v.registered =>
          (timer.v.at = "new" /\ timer.v.armed = None /\ timer.v.ticks = 0 /\ timer.v.calls = << >>)

Blocked(t) ==
    /\ script[t] # << >>
    /\ Head(script[t]).op = "acquire"
    /\ ~CanAcquire(t, Head(script[t]).lock, Head(script[t]).mode)
\* The threads holding the lock thread t is about to take.
Holders(t) ==
    { u \in Threads : \E i \in 1..Len(held[u]) : held[u][i].lock = Head(script[t]).lock }
\* No thread waits for a lock of its own or of a thread that waits itself, and a thread
\* outside every operation holds no lock.
NoWaitCycle ==
    /\ \A t \in Threads : Blocked(t) => \A u \in Holders(t) : u # t /\ ~Blocked(u)
    /\ \A t \in Threads : script[t] = << >> => held[t] = << >>

Next ==
    \/ HostImport
    \/ HostDrop
    \/ register_client
    \/ set_signer
    \/ sealing_state
    \/ StoreSignature
    \/ handle_message
    \/ on_transactions_imported
    \/ generate_engine_transactions
    \/ generate_seal
    \/ verify_block_family
    \/ verify_local_seal
    \/ verify_block_basic
    \/ verify_block_unordered
    \/ verify_block_external
    \/ on_close_block

Spec == Init /\ [][Next]_vars

\* One batch at the validators of a committee.
SpecBatch == BatchInit /\ [][BatchNext]_vars

\* Key generation by the configuration generator.
SpecKeygen == KeygenInit /\ [][KeygenNext]_vars

\* The engine's operations on two threads, lock by lock.
SpecLocks == LocksInit /\ [][LocksNext]_vars

\* on_transactions_imported and handle_message on two threads, statement by statement.
SpecThreads == ThreadsInit /\ [][ThreadsNext]_vars

\* dispatch_messages on one targeted message.
SpecDispatch == DispatchInit /\ [][DispatchNext]_vars

\* process_output on the outputs of Honey Badger steps, one after the other.
SpecOutput == OutputInit /\ [][OutputNext]_vars

\* The engine's operations on two threads under a fair scheduler and fair locks.
SpecLocksFair == LocksInit /\ [][LocksNext]_vars /\ LocksFairness

\* The TransitionHandler's timer loop beside a host that registers, imports and goes.
SpecTimer == TimerInit /\ [][TimerNext]_vars /\ TimerFairness

====
